---- MODULE Spec2Model ----
(***************************************************************************)
(* mdtools: the Markdown tree builder (libs/mdtojson), the node model and  *)
(* its table splitter (libs/mdtojson nodes) and the structural chunker     *)
(* (libs/mdchunk).                                                         *)
(*                                                                         *)
(* A Go string is modelled as a sequence of one-character strings, so that *)
(* len(s) is Len(s) and s + t is s \o t.  Only ASCII text is drawn, for    *)
(* which Go's byte length and the character count agree.                   *)
(***************************************************************************)
EXTENDS Integers, Sequences, FiniteSets, TLC

VARIABLES
    \* --- JSONRenderer (tree builder) ---
    nodes,          \* r.nodes: root-level nodes
    headerStack,    \* r.headerStack: addresses of the open headings
    currentHeader,  \* r.currentHeader: an address, or Nil
    imageRefs,      \* r.imageRefs: the registered image nodes
    heap,           \* the HeadingNode objects, by address
    events,         \* history: the block events walked so far
    imageLog,       \* history: every image node built, with its Reference
    returned,       \* what the last GetNodes / GetImageURLs call returned
    phase,          \* "walk" while the AST is walked, "final" after GetNodes
    \* --- MarkdownChunk.ChunkJSONMarkdown, outermost call ---
    markdownData,   \* the node sequence
    charLimit,
    idx,            \* the loop variable i (1-based)
    currentChunk,
    chunks,
    pc,
    frames,         \* the calls of ChunkJSONMarkdown in progress, the innermost last
    \* --- TableNode.ChunkTable ---
    table,          \* the receiver
    firstChunkLimit,
    nextChunksLimit,
    row,            \* position of the range loop (1-based)
    chunk,
    limit,
    tchunks,        \* the local chunks of ChunkTable
    tpc,
    \* --- mdrenderer.Renderer ---
    paragraphDecoration,
    nestedListLevel,
    orderedListCounters,
    indentLevel,
    tableAlignment,
    inTableHeader,
    tableCellCounter,
    written,        \* the bytes written to w so far
    walk,           \* the nodes entered and not yet left, the innermost last
    visits,         \* the number of RenderNode calls made
    rpc

bvars == <<nodes, headerStack, currentHeader, imageRefs, heap, events, imageLog,
          returned, phase>>
cvars == <<markdownData, charLimit, idx, currentChunk, chunks, pc, frames>>
tvars == <<table, firstChunkLimit, nextChunksLimit, row, chunk, limit, tchunks, tpc>>
rvars == <<paragraphDecoration, nestedListLevel, orderedListCounters, indentLevel,
          tableAlignment, inTableHeader, tableCellCounter, written, walk, visits, rpc>>
vars == <<bvars, cvars, tvars, rvars>>

\* the nil pointer; heap addresses start at 1
Nil == 0

(***************************************************************************)
(* Strings                                                                 *)
(***************************************************************************)
Rep(c, n) == [k \in 1..n |-> c]

NL == "\n"
QUOTE == "\""
\* the backquote character; the literal itself cannot be written in a TLA+
\* string, so this one-element token stands for it
BQ == "<backquote>"

\* the ASCII control characters, by byte value: ControlChars[b + 1] is the
\* character of the byte b below 0x20; a character that has no TLA+ string
\* escape is a one-element token
ControlChars ==
    <<"<0x00>", "<0x01>", "<0x02>", "<0x03>", "<0x04>", "<0x05>", "<0x06>", "<0x07>",
      "<0x08>", "\t", "\n", "<0x0b>", "\f", "\r", "<0x0e>", "<0x0f>",
      "<0x10>", "<0x11>", "<0x12>", "<0x13>", "<0x14>", "<0x15>", "<0x16>", "<0x17>",
      "<0x18>", "<0x19>", "<0x1a>", "<0x1b>", "<0x1c>", "<0x1d>", "<0x1e>", "<0x1f>">>
BEL == "<0x07>"
BS == "<0x08>"
VT == "<0x0b>"
DEL == "<0x7f>"
IsControl(c) == c = DEL \/ \E k \in DOMAIN ControlChars : ControlChars[k] = c
\* the byte value of a control character
ByteOf(c) ==
    IF c = DEL THEN 127
    ELSE (CHOOSE k \in DOMAIN ControlChars : ControlChars[k] = c) - 1

RECURSIVE Concat(_)
Concat(ss) == IF ss = <<>> THEN <<>> ELSE Head(ss) \o Concat(Tail(ss))

\* strings.Contains(s, sub)
Contains(s, sub) ==
    \E p \in 1..(Len(s) - Len(sub) + 1) : SubSeq(s, p, p + Len(sub) - 1) = sub

\* the characters of s that belong to the set keep, in order
RECURSIVE Project(_, _)
Project(s, keep) ==
    IF s = <<>> THEN <<>>
    ELSE (IF Head(s) \in keep THEN <<Head(s)>> ELSE <<>>) \o Project(Tail(s), keep)

Chars(s) == {s[p] : p \in DOMAIN s}

Digits == <<"0", "1", "2", "3", "4", "5", "6", "7", "8", "9">>

\* strconv.Itoa for a non-negative integer
RECURSIVE Itoa(_)
Itoa(n) == IF n < 10 THEN <<Digits[n + 1]>> ELSE Itoa(n \div 10) \o <<Digits[(n % 10) + 1]>>

(***************************************************************************)
(* Node model (mdtojson nodes).  A node is a record: Kind is the Go        *)
(* concrete type, Type the BaseNode.Type string, Children the child nodes  *)
(* (the nil slice and the empty slice are both <<>>: ranging over either   *)
(* does nothing).                                                          *)
(***************************************************************************)
NodeTypeHeading   == "heading"
NodeTypeText      == "text"
NodeTypeTable     == "table"
NodeTypeLink      == "link"
NodeTypeImage     == "image"
NodeTypeCode      == "code"
NodeTypeCodeBlock == "codeblock"
NodeTypeParagraph == "paragraph"
NodeTypeList      == "list"
NodeTypeListItem  == "listitem"
NodeTypeBlockquote == "blockquote"
NodeTypeLineBreak == "linebreak"
NodeTypeSoftBreak == "softbreak"
NodeTypeLineSeparator == "lineseparator"

NewBaseNode(t, content) == [Kind |-> "BaseNode", Type |-> t, Children |-> content]

NewHeadingNode(level, title) ==
    [Kind |-> "HeadingNode", Type |-> NodeTypeHeading, Children |-> <<>>,
     Title |-> title, Level |-> level]

NewTextNode(text) ==
    [Kind |-> "TextNode", Type |-> NodeTypeText, Children |-> <<>>, Text |-> text]

NewTableNode(data) ==
    [Kind |-> "TableNode", Type |-> NodeTypeTable, Children |-> <<>>, Data |-> data]

NewLinkNode(url, title) ==
    [Kind |-> "LinkNode", Type |-> NodeTypeLink, Children |-> <<>>,
     URL |-> url, Title |-> title]

NewImageNode(url, alt) ==
    [Kind |-> "ImageNode", Type |-> NodeTypeImage, Children |-> <<>>,
     URL |-> url, Alt |-> alt, Reference |-> 0]

NewCodeNode(code) ==
    [Kind |-> "CodeNode", Type |-> NodeTypeCode, Children |-> <<>>, Code |-> code]

NewCodeBlockNode(language, code) ==
    [Kind |-> "CodeBlockNode", Type |-> NodeTypeCodeBlock, Children |-> <<>>,
     Language |-> language, Code |-> code]

NewParagraphNode(children) ==
    [Kind |-> "ParagraphNode", Type |-> NodeTypeParagraph, Children |-> children]

SetChildren(n, children) == [n EXCEPT !.Children = children]

HeadingToMarkdown(n) == Rep("#", n.Level) \o <<" ">> \o n.Title \o <<NL, NL>>

LinkToMarkdown(n) == <<"[">> \o n.Title \o <<"]", "(">> \o n.URL \o <<")", NL, NL>>

ImageToMarkdown(n) ==
    <<"!", "[", "I", "m", "a", "g", "e", "]", "(">> \o n.URL \o <<")", NL>>

CodeBlockToMarkdown(n) ==
    <<BQ, BQ, BQ>> \o n.Language \o <<NL>> \o n.Code \o <<NL, BQ, BQ, BQ, NL, NL>>

FenceOpen == <<":", ":", ":", "j", "s", "o", "n", "_", "t", "a", "b", "l", "e", NL>>
FenceClose == <<NL, ":", ":", ":", NL, NL>>

toJSONTable(str) == FenceOpen \o str \o FenceClose

\* the hexadecimal digits strconv and encoding/json write
Hex == <<"0", "1", "2", "3", "4", "5", "6", "7", "8", "9", "a", "b", "c", "d", "e", "f">>

\* \xNN for the byte b
HexEscape(b) == <<"\\", "x", Hex[(b \div 16) + 1], Hex[(b % 16) + 1]>>

\* \u00NN for the byte b
UnicodeEscape(b) == <<"\\", "u", "0", "0", Hex[(b \div 16) + 1], Hex[(b % 16) + 1]>>

\* strconv.Quote on one ASCII character: the quote and the backslash get a
\* backslash, \a \b \f \n \r \t \v their two-character escape, every
\* other control character and DEL \xNN, a printable character is itself
EscapeChar(c) ==
    CASE c = QUOTE -> <<"\\", QUOTE>>
      [] c = "\\" -> <<"\\", "\\">>
      [] c = BEL -> <<"\\", "a">>
      [] c = BS -> <<"\\", "b">>
      [] c = "\f" -> <<"\\", "f">>
      [] c = NL -> <<"\\", "n">>
      [] c = "\r" -> <<"\\", "r">>
      [] c = "\t" -> <<"\\", "t">>
      [] c = VT -> <<"\\", "v">>
      [] IsControl(c) -> HexEscape(ByteOf(c))
      [] OTHER -> <<c>>

RECURSIVE Escape(_)
Escape(s) == IF s = <<>> THEN <<>> ELSE EscapeChar(Head(s)) \o Escape(Tail(s))

\* fmt.Sprintf("%q", s)
Quote(s) == <<QUOTE>> \o Escape(s) \o <<QUOTE>>

\* encoding/json on one ASCII character of a string: the quote and the
\* backslash get a backslash, \b \f \n \r \t their two-character escape,
\* every other control character below 0x20 and the characters < > &
\* \u00NN; DEL and a printable character are themselves
JSONEscapeChar(c) ==
    CASE c = QUOTE -> <<"\\", QUOTE>>
      [] c = "\\" -> <<"\\", "\\">>
      [] c = BS -> <<"\\", "b">>
      [] c = "\f" -> <<"\\", "f">>
      [] c = NL -> <<"\\", "n">>
      [] c = "\r" -> <<"\\", "r">>
      [] c = "\t" -> <<"\\", "t">>
      [] c = DEL -> <<c>>
      [] IsControl(c) -> UnicodeEscape(ByteOf(c))
      [] c = "<" -> <<"\\", "u", "0", "0", "3", "c">>
      [] c = ">" -> <<"\\", "u", "0", "0", "3", "e">>
      [] c = "&" -> <<"\\", "u", "0", "0", "2", "6">>
      [] OTHER -> <<c>>

RECURSIVE JSONEscape(_)
JSONEscape(s) ==
    IF s = <<>> THEN <<>> ELSE JSONEscapeChar(Head(s)) \o JSONEscape(Tail(s))

\* json.Marshal of a string
JSONString(s) == <<QUOTE>> \o JSONEscape(s) \o <<QUOTE>>

\* json.Marshal of an OrderedMap row: the pairs in insertion order
RECURSIVE MarshalPairs(_, _)
MarshalPairs(r, k) ==
    IF k > Len(r) THEN <<>>
    ELSE (IF k > 1 THEN <<",">> ELSE <<>>)
         \o JSONString(r[k].key) \o <<":">> \o JSONString(r[k].value)
         \o MarshalPairs(r, k + 1)

MarshalRow(r) == <<"{">> \o MarshalPairs(r, 1) \o <<"}">>

(***************************************************************************)
(* Table data.  Positional: shape "rows", a sequence of rows.  Keyed:      *)
(* shape "keyed", the entries of the outer OrderedMap in KVIter order,     *)
(* each a key and a row.  A row is the sequence of its key/value pairs.    *)
(***************************************************************************)
PositionalData(rows) == [shape |-> "rows", items |-> rows, null |-> FALSE]
KeyedData(entries) == [shape |-> "keyed", items |-> entries, null |-> FALSE]
NilData == [shape |-> "nil", items |-> <<>>, null |-> TRUE]
\* the nil slice of rows: "var tableData []*ordered.OrderedMap" with nothing
\* appended; the type switch takes it for a slice of rows, json.Marshal
\* writes null
NilRows == [shape |-> "rows", items |-> <<>>, null |-> TRUE]

\* the text one range iteration of ChunkTable builds for its row
TablePart(data, k) ==
    IF data.shape = "rows"
    THEN MarshalRow(data.items[k]) \o <<",", NL>>
    ELSE Quote(data.items[k].key) \o <<":", " ">> \o MarshalRow(data.items[k].row)
         \o <<",", NL>>

TableOpen(data) == IF data.shape = "rows" THEN <<"[", NL>> ELSE <<"{", NL>>
TableClose(data) == IF data.shape = "rows" THEN <<"]">> ELSE <<"}">>

WrapFragment(data, body) == toJSONTable(TableOpen(data) \o body \o TableClose(data))

\* mutant of ChunkTableRow: the row that closes a fragment is dropped
ChunkTableRow_DropsRow(data, k, st, nextLimit) ==
    LET part == TablePart(data, k)
    IN IF Len(st.chunk) + Len(part) > st.limit
       THEN [chunks |-> Append(st.chunks, WrapFragment(data, st.chunk)),
             chunk |-> <<>>, limit |-> nextLimit]
       ELSE [st EXCEPT !.chunk = @ \o part]

\* one iteration of the range loop of ChunkTable on the state
\* st = [chunks, chunk, limit]
ChunkTableRow(data, k, st, nextLimit) ==
    LET part == TablePart(data, k)
        over == Len(st.chunk) + Len(part) > st.limit
        st1 == IF over
               THEN [chunks |-> Append(st.chunks, WrapFragment(data, st.chunk)),
                     chunk |-> <<>>, limit |-> nextLimit]
               ELSE st
    IN [st1 EXCEPT !.chunk = @ \o part]

\* mutant of ChunkTableTail: the last fragment is added even when empty
ChunkTableTail_Always(data, st) ==
    IF data.shape \in {"rows", "keyed"}
    THEN Append(st.chunks, WrapFragment(data, st.chunk))
    ELSE st.chunks

\* the closing "if len(chunk) > 0" of ChunkTable
ChunkTableTail(data, st) ==
    IF Len(st.chunk) > 0 /\ data.shape \in {"rows", "keyed"}
    THEN Append(st.chunks, WrapFragment(data, st.chunk))
    ELSE st.chunks

RECURSIVE ChunkTableLoop(_, _, _, _)
ChunkTableLoop(data, k, st, nextLimit) ==
    IF k > Len(data.items) THEN st
    ELSE ChunkTableLoop(data, k + 1, ChunkTableRow(data, k, st, nextLimit), nextLimit)

ChunkTable(n, first, next) ==
    ChunkTableTail(n.Data,
        ChunkTableLoop(n.Data, 1, [chunks |-> <<>>, chunk |-> <<>>, limit |-> first], next))

\* json.Marshal(n.Data), as TableNode.ToMarkdown serializes the whole table
RECURSIVE MarshalItems(_, _)
MarshalItems(data, k) ==
    IF k > Len(data.items) THEN <<>>
    ELSE (IF k > 1 THEN <<",">> ELSE <<>>)
         \o (IF data.shape = "rows"
             THEN MarshalRow(data.items[k])
             ELSE JSONString(data.items[k].key) \o <<":">> \o MarshalRow(data.items[k].row))
         \o MarshalItems(data, k + 1)

MarshalData(data) ==
    CASE data.null -> <<"n", "u", "l", "l">>
      [] data.shape = "rows" -> <<"[">> \o MarshalItems(data, 1) \o <<"]">>
      [] data.shape = "keyed" -> <<"{">> \o MarshalItems(data, 1) \o <<"}">>
      [] OTHER -> <<"n", "u", "l", "l">>

\* ImageNode.ToReference: the compact placeholder that embeds the reference
\* number
ToReference(n) ==
    <<"!", "[", "I", "m", "a", "g", "e", "]", "[">> \o Itoa(n.Reference) \o <<"]", NL>>

\* Node.ToMarkdown, by concrete type
ToMarkdown(n) ==
    CASE n.Kind = "HeadingNode" -> HeadingToMarkdown(n)
      [] n.Kind = "TextNode" -> n.Text
      [] n.Kind = "TableNode" -> toJSONTable(MarshalData(n.Data))
      [] n.Kind = "LinkNode" -> LinkToMarkdown(n)
      [] n.Kind = "ImageNode" -> ImageToMarkdown(n)
      [] n.Kind = "CodeNode" -> <<BQ>> \o n.Code \o <<BQ>>
      [] n.Kind = "CodeBlockNode" -> CodeBlockToMarkdown(n)
      [] OTHER -> <<>>   \* BaseNode, ParagraphNode

(***************************************************************************)
(* MarkdownChunk.ChunkJSONMarkdown.  The loop state is                     *)
(* st = [chunks, currentChunk]; ChunkNode is one iteration of the for      *)
(* loop, used both by the recursive calls and by the stepwise outermost    *)
(* call below.                                                             *)
(***************************************************************************)
RECURSIVE ChunkJSONMarkdown(_, _)

\* mutant of Flush: the current chunk restarts empty, not from the section
Flush_Empty(st, reset) ==
    [chunks |-> Append(st.chunks, st.currentChunk), currentChunk |-> <<>>]

Flush(st, reset) ==
    [chunks |-> Append(st.chunks, st.currentChunk), currentChunk |-> reset]

\* mutant of TableCase: the text before the table is not joined to the first
\* fragment
TableCase_DropsText(lim, node, st) ==
    IF node.Kind # "TableNode" THEN st
    ELSE LET tableChunks == ChunkTable(node, lim - Len(st.currentChunk), lim)
         IN IF Len(tableChunks) = 0 THEN st
            ELSE LET st1 == [chunks |-> st.chunks
                                \o SubSeq(tableChunks, 1, Len(tableChunks) - 1),
                             currentChunk |-> tableChunks[Len(tableChunks)]]
                 IN IF Len(st1.currentChunk) > lim THEN Flush(st1, <<>>) ELSE st1

\* mutant of TableCase: a failed cast flushes the current chunk
TableCase_CastFlushes(lim, node, st) ==
    IF node.Kind # "TableNode" THEN Flush(st, <<>>)
    ELSE LET tableChunks == ChunkTable(node, lim - Len(st.currentChunk), lim)
         IN IF Len(tableChunks) = 0 THEN st
            ELSE LET joined == [tableChunks EXCEPT ![1] = st.currentChunk \o @]
                     st1 == [chunks |-> st.chunks \o SubSeq(joined, 1, Len(joined) - 1),
                             currentChunk |-> joined[Len(joined)]]
                 IN IF Len(st1.currentChunk) > lim THEN Flush(st1, <<>>) ELSE st1

\* case mdtojson.NodeTypeTable
TableCase(lim, node, st) ==
    IF node.Kind # "TableNode" THEN st   \* the cast failed: continue
    ELSE LET tableChunks == ChunkTable(node, lim - Len(st.currentChunk), lim)
         IN IF Len(tableChunks) = 0 THEN st
            ELSE LET joined == [tableChunks EXCEPT ![1] = st.currentChunk \o @]
                     st1 == [chunks |-> st.chunks \o SubSeq(joined, 1, Len(joined) - 1),
                             currentChunk |-> joined[Len(joined)]]
                 IN IF Len(st1.currentChunk) > lim THEN Flush(st1, <<>>) ELSE st1

\* mutant of ImageCase: the flush keeps the placeholder in the current chunk
ImageCase_KeepsAfterFlush(lim, node, st) ==
    IF node.Kind # "ImageNode" THEN st
    ELSE LET st1 == [st EXCEPT !.currentChunk = @ \o ToReference(node)]
         IN IF Len(st1.currentChunk) > lim THEN Flush(st1, ToReference(node)) ELSE st1

\* case mdtojson.NodeTypeImage
ImageCase(lim, node, st) ==
    IF node.Kind # "ImageNode" THEN st   \* the cast failed: continue
    ELSE LET st1 == [st EXCEPT !.currentChunk = @ \o ToReference(node)]
         IN IF Len(st1.currentChunk) > lim THEN Flush(st1, <<>>) ELSE st1

\* for _, child := range childrenChunks
RECURSIVE AppendChildren(_, _, _, _, _)
AppendChildren(childrenChunks, k, section, lim, st) ==
    IF k > Len(childrenChunks) THEN st
    ELSE LET child == childrenChunks[k]
             st1 == IF Len(st.currentChunk) + Len(child) > lim
                    THEN Flush(st, section)
                    ELSE st
         IN AppendChildren(childrenChunks, k + 1, section, lim,
                           [st1 EXCEPT !.currentChunk = @ \o child])

\* the closing "if currentChunk != section" of an iteration
SectionOverflow(lim, section, st) ==
    IF st.currentChunk # section /\ Len(st.currentChunk) > lim
    THEN Flush(st, section)
    ELSE st

\* the rest of an iteration once the children are in: the paragraph's blank
\* line, then the closing test
SectionTail(lim, node, section, st2) ==
    LET st3 == IF node.Type = NodeTypeParagraph
               THEN [st2 EXCEPT !.currentChunk = @ \o <<NL, NL>>]
               ELSE st2
    IN SectionOverflow(lim, section, st3)

\* every other node type
SectionCase(lim, node, st) ==
    LET section == ToMarkdown(node)
        st1 == [st EXCEPT !.currentChunk = @ \o section]
        childs == node.Children
        st2 == IF childs # <<>>
               THEN AppendChildren(ChunkJSONMarkdown(lim - Len(section), childs),
                                   1, section, lim, st1)
               ELSE st1
    IN SectionTail(lim, node, section, st2)

ChunkNode(lim, node, st) ==
    CASE node.Type = NodeTypeTable -> TableCase(lim, node, st)
      [] node.Type = NodeTypeImage -> ImageCase(lim, node, st)
      [] OTHER -> SectionCase(lim, node, st)

RECURSIVE ChunkLoop(_, _, _, _)
ChunkLoop(lim, data, k, st) ==
    IF k > Len(data) THEN st
    ELSE ChunkLoop(lim, data, k + 1, ChunkNode(lim, data[k], st))

\* "Add any remaining content in currentChunk as the last chunk"
LastChunk(st) ==
    IF Len(st.currentChunk) > 0 THEN Append(st.chunks, st.currentChunk) ELSE st.chunks

ChunkJSONMarkdown(lim, data) ==
    LastChunk(ChunkLoop(lim, data, 1, [chunks |-> <<>>, currentChunk |-> <<>>]))

(***************************************************************************)
(* JSONRenderer, the tree builder.  The renderer is the record             *)
(* r = [nodes, headerStack, currentHeader, imageRefs, heap].  A heading is *)
(* an object of the heap, held by address (the stack, the current header   *)
(* and the child lists share it); every other node is a value.             *)
(* The blackfriday nodes walked are records: a Heading with its Level and  *)
(* flattened Text, a Paragraph with its Inline children (Text with a       *)
(* Literal, Image with a Destination and Alt).                             *)
(***************************************************************************)
Ptr(a) == [Kind |-> "ptr", addr |-> a]

Top(stack) == stack[Len(stack)]
Pop(stack) == SubSeq(stack, 1, Len(stack) - 1)

NewJSONRenderer ==
    [nodes |-> <<>>, headerStack |-> <<>>, currentHeader |-> Nil,
     imageRefs |-> <<>>, heap |-> <<>>]

\* addImage: the reference of the image's URL, registering it when new
RECURSIVE FindImage(_, _, _)
FindImage(refs, url, k) ==
    IF k > Len(refs) THEN 0
    ELSE IF refs[k].URL = url THEN k ELSE FindImage(refs, url, k + 1)

\* mutant of addImage: a known URL gives the zero-based index
addImage_ZeroBased(r, image) ==
    LET found == FindImage(r.imageRefs, image.URL, 1)
    IN IF found # 0
       THEN [r |-> r, ref |-> found - 1]
       ELSE [r |-> [r EXCEPT !.imageRefs = Append(@, image)],
             ref |-> Len(r.imageRefs) + 1]

addImage(r, image) ==
    LET found == FindImage(r.imageRefs, image.URL, 1)
    IN IF found # 0
       THEN [r |-> r, ref |-> found]
       ELSE [r |-> [r EXCEPT !.imageRefs = Append(@, image)],
             ref |-> Len(r.imageRefs) + 1]

\* mutant of GetImageURLs: the map is keyed from 0
GetImageURLs_ZeroBased(r) == [k \in 0..(Len(r.imageRefs) - 1) |-> r.imageRefs[k + 1].URL]

\* GetImageURLs: the map from reference number to URL
GetImageURLs(r) == [k \in 1..Len(r.imageRefs) |-> r.imageRefs[k].URL]

\* mutant of PopGuard: a heading of the same level is left open
PopGuard_Strict(r, level) ==
    Len(r.headerStack) > 0 /\ level < r.heap[Top(r.headerStack)].Level

\* the loop condition of finalizeHeaders
PopGuard(r, level) ==
    Len(r.headerStack) > 0 /\ level <= r.heap[Top(r.headerStack)].Level

\* the pop loop of finalizeHeaders
RECURSIVE PopHeaders(_, _, _)
PopHeaders(r, level, finishedHeaders) ==
    IF PopGuard(r, level)
    THEN LET finishedHeader == Top(r.headerStack)
             stack == Pop(r.headerStack)
         IN IF Len(stack) > 0
            THEN PopHeaders([r EXCEPT !.headerStack = stack,
                                      !.heap[Top(stack)].Children =
                                          Append(@, Ptr(finishedHeader))],
                            level, finishedHeaders)
            ELSE PopHeaders([r EXCEPT !.headerStack = stack], level,
                            Append(finishedHeaders, Ptr(finishedHeader)))
    ELSE [r |-> r, finishedHeaders |-> finishedHeaders]

\* mutant of finalizeHeaders: the headings popped off an emptied stack are
\* not appended to the root nodes
finalizeHeaders_LosesRoots(r, level) ==
    IF r.currentHeader # Nil
    THEN LET res == PopHeaders(r, level, <<>>)
         IN IF Len(res.r.headerStack) > 0
            THEN [res.r EXCEPT !.heap[Top(res.r.headerStack)].Children =
                                   @ \o res.finishedHeaders]
            ELSE res.r
    ELSE r

\* mutant of finalizeHeaders: with nothing popped, the current heading is
\* appended to the root nodes
finalizeHeaders_Reappends(r, level) ==
    IF r.currentHeader # Nil
    THEN LET res == PopHeaders(r, level, <<>>)
         IN IF Len(res.r.headerStack) > 0
            THEN [res.r EXCEPT !.heap[Top(res.r.headerStack)].Children =
                                   @ \o res.finishedHeaders]
            ELSE [res.r EXCEPT !.nodes =
                     @ \o (IF res.finishedHeaders = <<>> THEN <<Ptr(r.currentHeader)>>
                           ELSE res.finishedHeaders)]
    ELSE r

finalizeHeaders(r, level) ==
    IF r.currentHeader # Nil
    THEN LET res == PopHeaders(r, level, <<>>)
         IN IF Len(res.r.headerStack) > 0
            THEN [res.r EXCEPT !.heap[Top(res.r.headerStack)].Children =
                                   @ \o res.finishedHeaders]
            ELSE [res.r EXCEPT !.nodes = @ \o res.finishedHeaders]
    ELSE r

\* mutant of handleHeader: the open headings are not finalized first
handleHeader_NoFinalize(r, node) ==
    LET headerNode == NewHeadingNode(node.Level, node.Text)
        a == Len(r.heap) + 1
    IN [r EXCEPT !.heap = Append(@, headerNode),
                 !.headerStack = Append(@, a),
                 !.currentHeader = a]

handleHeader(r, node) ==
    LET headerNode == NewHeadingNode(node.Level, node.Text)
        r1 == finalizeHeaders(r, node.Level)
        a == Len(r1.heap) + 1
    IN [r1 EXCEPT !.heap = Append(@, headerNode),
                  !.headerStack = Append(@, a),
                  !.currentHeader = a]

\* the Text child that holds the text of a node; a node without text has
\* no child
TextChild(text) == IF text = <<>> THEN <<>> ELSE <<[Type |-> "Text", Literal |-> text]>>

\* the children of a blackfriday node: the inline nodes of a Paragraph, the
\* blocks of a list Item or a BlockQuote, the Items of a List, the Text of a
\* Heading, a Link, an Image and a TableCell, the TableHead and TableBody
\* of a Table, the TableRows of these and the TableCells of a TableRow
Subnodes(n) ==
    CASE n.Type = "Paragraph" -> n.Inline
      [] n.Type \in {"Item", "BlockQuote"} -> n.Kids
      [] n.Type = "List" -> n.Items
      [] n.Type \in {"Heading", "Link", "TableCell"} -> TextChild(n.Text)
      [] n.Type = "Image" -> TextChild(n.Alt)
      [] n.Type = "Table" -> <<[Type |-> "TableHead", Rows |-> <<n.Head>>],
                               [Type |-> "TableBody", Rows |-> n.Body]>>
      [] n.Type \in {"TableHead", "TableBody"} ->
           [i \in DOMAIN n.Rows |-> [Type |-> "TableRow", Cells |-> n.Rows[i]]]
      [] n.Type = "TableRow" ->
           [i \in DOMAIN n.Cells |-> [Type |-> "TableCell", Text |-> n.Cells[i]]]
      [] OTHER -> <<>>

\* node.Walk: the nodes entered, in order, starting with the nodes ns
\* themselves; the children of a node whose type is in skip are not
\* entered (SkipChildren)
RECURSIVE Entered(_, _)
Entered(ns, skip) ==
    IF ns = <<>> THEN <<>>
    ELSE <<Head(ns)>>
         \o (IF Head(ns).Type \in skip THEN <<>> ELSE Entered(Subnodes(Head(ns)), skip))
         \o Entered(Tail(ns), skip)

\* extractText: the literals of the Text nodes the walk from n enters, in
\* order; no node is skipped
extractText(n) ==
    LET texts == SelectSeq(Entered(<<n>>, {}), LAMBDA m : m.Type = "Text")
    IN Concat([k \in DOMAIN texts |-> texts[k].Literal])

\* the walk of extractContent over the nodes entered; the state is
\* x = [r, children, log]
RECURSIVE extractInline(_, _, _)
extractInline(inline, k, x) ==
    IF k > Len(inline) THEN x
    ELSE LET n == inline[k]
         IN CASE n.Type = "Text" ->
                   extractInline(inline, k + 1,
                       IF n.Literal = <<>> THEN x
                       ELSE [x EXCEPT !.children = Append(@, NewTextNode(n.Literal))])
              [] n.Type = "Image" ->
                   LET image == NewImageNode(n.Destination, n.Alt)
                       got == addImage(x.r, image)
                       done == [image EXCEPT !.Reference = got.ref]
                       r1 == IF Len(got.r.imageRefs) > Len(x.r.imageRefs)
                             THEN [got.r EXCEPT !.imageRefs[Len(got.r.imageRefs)] = done]
                             ELSE got.r
                   IN extractInline(inline, k + 1,
                          [r |-> r1, children |-> Append(x.children, done),
                           log |-> Append(x.log, done)])
              [] n.Type = "Link" ->
                   extractInline(inline, k + 1,
                       [x EXCEPT !.children =
                            Append(@, NewLinkNode(n.Destination, n.Text))])
              [] n.Type = "Code" ->
                   extractInline(inline, k + 1,
                       [x EXCEPT !.children = Append(@, NewCodeNode(n.Literal))])
              [] n.Type = "CodeBlock" ->
                   LET codeContent == n.Literal
                       language == n.Info
                   IN extractInline(inline, k + 1,
                          [x EXCEPT !.children =
                               Append(@, NewCodeBlockNode(language, codeContent))])
              [] n.Type = "BlockQuote" ->
                   LET content == extractText(n)
                   IN extractInline(inline, k + 1,
                          [x EXCEPT !.children = Append(@, NewTextNode(content))])
              [] OTHER -> extractInline(inline, k + 1, x)

extractContent(r, node) ==
    extractInline(Entered(<<node>>, {"List", "Link", "Image", "BlockQuote"}), 1,
                  [r |-> r, children |-> <<>>, log |-> <<>>])

\* handleParagraph: the paragraph node of a block's inline content
handleParagraph(r, node) ==
    LET x == extractContent(r, node)
    IN [r |-> x.r, node |-> NewParagraphNode(x.children), log |-> x.log]

\* handleList and extractListItems call each other; ListWalk is the two of
\* them and their loops as one recursion, told apart by call:
\*   "handleList"        arg a List; gives [r, node, log]
\*   "extractListItems"  arg an Item; gives [r, node, log]
\*   "items"             the items arg[k..] of a list, x = [r, nodes, log]
\*   "lists"             the nested lists arg[k..] of an item, x likewise
\* handleList's walk: the Items entered, the children of the Items in skip
\* not entered
ItemsOf(list, skip) == SelectSeq(Entered(<<list>>, skip), LAMBDA n : n.Type = "Item")

\* extractListItems' walk: the Lists entered, their children skipped
ListsOf(item) == SelectSeq(Entered(<<item>>, {"List"}), LAMBDA n : n.Type = "List")

\* extractListItems: children starts with the paragraph of the item
StartItem(listItem) ==
    [r |-> listItem.r, nodes |-> <<listItem.node>>, log |-> listItem.log]

\* children = append(children, ...) with the node a handler gave
Collect(x, got) ==
    [r |-> got.r, nodes |-> Append(x.nodes, got.node), log |-> x.log \o got.log]

\* the BaseNode handleList and extractListItems return
ListResult(type, x) == [r |-> x.r, node |-> NewBaseNode(type, x.nodes), log |-> x.log]

\* e, with v evaluated first: the walk's callback has updated children (and
\* the renderer) before the walk goes on to the next node.  Eager(v, e) = e.
Eager(v, e) == IF v = v THEN e ELSE e

RECURSIVE ListWalk(_, _, _, _, _)
ListWalk(call, r, arg, k, x) ==
    CASE call = "handleList" ->
           ListResult(NodeTypeList,
               ListWalk("items", r, ItemsOf(arg, {"Item"}), 1,
                        [r |-> r, nodes |-> <<>>, log |-> <<>>]))
      [] call = "extractListItems" ->
           ListResult(NodeTypeListItem,
               ListWalk("lists", r, ListsOf(arg), 1, StartItem(handleParagraph(r, arg))))
      [] call = "items" ->
           Eager(x, IF k > Len(arg) THEN x
                    ELSE ListWalk("items", r, arg, k + 1,
                             Collect(x, ListWalk("extractListItems", x.r, arg[k], 1, x))))
      [] call = "lists" ->
           Eager(x, IF k > Len(arg) THEN x
                    ELSE ListWalk("lists", r, arg, k + 1,
                             Collect(x, ListWalk("handleList", x.r, arg[k], 1, x))))

extractListItems(r, node) == ListWalk("extractListItems", r, node, 1, <<>>)

handleList(r, node) == ListWalk("handleList", r, node, 1, <<>>)

\* RenderNode, case blackfriday.CodeBlock: the content node
RenderCodeBlock(node) ==
    LET codeContent == node.Literal
        language == node.Info
    IN NewCodeBlockNode(codeContent, language)

(***************************************************************************)
(* handleTable.  A blackfriday Table is the record [Type, Head, Body]:     *)
(* Head the texts of the header cells, Body the rows, each the texts of    *)
(* its cells.  An OrderedMap is the sequence of its entries in insertion   *)
(* order: [key, value] for a row, [key, row] for a keyed table.            *)
(***************************************************************************)
\* OrderedMap.Set on a row: a known key keeps its place and takes the value
OrderedMapSet(m, key, value) ==
    IF \E k \in DOMAIN m : m[k].key = key
    THEN [k \in DOMAIN m |-> IF m[k].key = key THEN [m[k] EXCEPT !.value = value]
                                              ELSE m[k]]
    ELSE Append(m, [key |-> key, value |-> value])

\* OrderedMap.Set on a keyed table
OrderedMapSetRow(m, key, rowData) ==
    IF \E k \in DOMAIN m : m[k].key = key
    THEN [k \in DOMAIN m |-> IF m[k].key = key THEN [m[k] EXCEPT !.row = rowData]
                                              ELSE m[k]]
    ELSE Append(m, [key |-> key, row |-> rowData])

\* OrderedMap.Delete
OrderedMapDelete(m, key) == SelectSeq(m, LAMBDA e : e.key # key)

\* collectTableHeaders: the header texts in order
collectTableHeaders(head) == head

\* mutant of collectRowCell: every cell is stored under the first header
collectRowCell_FirstHeader(headers, cells, k, x) ==
    IF x.headerIndex < Len(headers)
    THEN [rowData |-> OrderedMapSet(x.rowData, headers[1], cells[k]),
          headerIndex |-> x.headerIndex + 1]
    ELSE x

\* one TableCell met by collectRowCells; x = [rowData, headerIndex], the
\* index 0-based as in the source
collectRowCell(headers, cells, k, x) ==
    IF x.headerIndex < Len(headers)
    THEN [rowData |-> OrderedMapSet(x.rowData, headers[x.headerIndex + 1], cells[k]),
          headerIndex |-> x.headerIndex + 1]
    ELSE x

RECURSIVE collectRowCellsFrom(_, _, _, _)
collectRowCellsFrom(headers, cells, k, x) ==
    IF k > Len(cells) THEN x
    ELSE collectRowCellsFrom(headers, cells, k + 1, collectRowCell(headers, cells, k, x))

collectRowCells(headers, cells) ==
    collectRowCellsFrom(headers, cells, 1, [rowData |-> <<>>, headerIndex |-> 0]).rowData

\* mutant of DeleteEmptyEntry: the second loop deletes nothing
DeleteEmptyEntry_Keeps(rowData) == rowData

\* the second loop of collectTableRowsRegular on one row: an entry with
\* empty key and empty value is deleted
DeleteEmptyEntry(rowData) ==
    IF \E k \in DOMAIN rowData : rowData[k].key = <<>> /\ rowData[k].value = <<>>
    THEN OrderedMapDelete(rowData, <<>>)
    ELSE rowData

\* the rows collectTableRowsRegular returns; with no row appended the slice
\* returned is nil
collectTableRowsRegular(headers, body) ==
    [i \in DOMAIN body |-> DeleteEmptyEntry(collectRowCells(headers, body[i]))]

\* the []*ordered.OrderedMap stored in tableData
RegularData(rows) == IF rows = <<>> THEN NilRows ELSE PositionalData(rows)

\* mutant of collectRowCellsWithKeys: the key column stays in the row
collectRowCellsWithKeys_KeepsKey(headers, cells) ==
    [key |-> IF cells = <<>> THEN <<>> ELSE cells[1],
     rowData |-> collectRowCells(headers, cells)]

collectRowCellsWithKeys(headers, cells) ==
    LET rowData == collectRowCells(headers, cells)
    IN IF cells = <<>>
       THEN [key |-> <<>>, rowData |-> rowData]
       ELSE [key |-> cells[1], rowData |-> OrderedMapDelete(rowData, headers[1])]

RECURSIVE collectTableRowsWithKeysFrom(_, _, _, _)
collectTableRowsWithKeysFrom(headers, body, k, tableData) ==
    IF k > Len(body) THEN tableData
    ELSE LET kr == collectRowCellsWithKeys(headers, body[k])
         IN collectTableRowsWithKeysFrom(headers, body, k + 1,
                OrderedMapSetRow(tableData, kr.key, kr.rowData))

collectTableRowsWithKeys(headers, body) ==
    collectTableRowsWithKeysFrom(headers, body, 1, <<>>)

handleTable(node) ==
    LET headers == collectTableHeaders(node.Head)
        tableData == IF headers[1] = <<>>
                     THEN KeyedData(collectTableRowsWithKeys(headers, node.Body))
                     ELSE RegularData(collectTableRowsRegular(headers, node.Body))
    IN NewTableNode(tableData)

\* mutant of AttachContent: the node goes under the shallowest open heading
AttachContent_Shallowest(r, contentNode) ==
    IF r.currentHeader # Nil /\ r.headerStack # <<>>
    THEN [r EXCEPT !.heap[r.headerStack[1]].Children = Append(@, contentNode)]
    ELSE [r EXCEPT !.nodes = Append(@, contentNode)]

\* the tail of RenderNode: attach the content node
AttachContent(r, contentNode) ==
    IF r.currentHeader # Nil
    THEN [r EXCEPT !.heap[r.currentHeader].Children = Append(@, contentNode)]
    ELSE [r EXCEPT !.nodes = Append(@, contentNode)]

\* a node list with the heading addresses replaced by the headings
RECURSIVE Resolve(_, _)
Resolve(items, hp) ==
    [k \in DOMAIN items |->
        IF items[k].Kind = "ptr"
        THEN [hp[items[k].addr] EXCEPT !.Children = Resolve(@, hp)]
        ELSE items[k]]

(***************************************************************************)
(* Bounds and the inputs drawn under them                                  *)
(***************************************************************************)
MaxText == 3       \* longest text of a leaf
MaxLimit == 24     \* largest charLimit drawn for a document without a table
MaxTableLimit == 36  \* largest limit drawn for a table
MaxRows == 3       \* most rows of a table
MaxEvents == 4     \* most block events of a walked document
MaxLevel == 3      \* deepest heading level drawn
MaxCells == 3      \* most cells drawn in a table row
MaxBodyRows == 2   \* most body rows drawn in a table
MaxItems == 2      \* most items drawn in a list
MaxOthers == 1     \* most breaks, rules and block quotes entered in a walked document
MaxNegative == 3   \* the lowest charLimit drawn is 0 - MaxNegative
MaxCallLimit == 12 \* largest charLimit drawn for a call followed frame by frame
MaxVisits == 9     \* most RenderNode calls of a walk
MaxOpen == 7       \* deepest nesting of a walked document
MaxMarkupVisits == 5  \* most RenderNode calls of a walk over inline markup
MaxTableVisits == 20  \* most RenderNode calls of a walk over a table
MaxColumns == 2    \* most columns of a walked table

Txt(c, n) == NewTextNode(Rep(c, n))
Heading(level, c, kids) == SetChildren(NewHeadingNode(level, <<c>>), kids)
Para(kids) == NewParagraphNode(kids)
Image(url, ref) == [NewImageNode(url, <<>>) EXCEPT !.Reference = ref]

\* The letters drawn are all different from one another and from the
\* letters of the fixed texts (the fence, the image markers), so that a
\* letter found in a chunk tells which node it came from.
\* Row k of a drawn table holds one column whose value is the k-th row
\* letter, so every row of a table is different from the others.
RowLetters == <<"u", "v", "w", "x", "y", "z">>
KeyLetters == <<"p", "q", "r", "P", "Q", "R">>
RowOf(k) == <<[key |-> <<"k">>, value |-> <<RowLetters[k]>>]>>
\* a wider first row, so that the rows of a table differ in length
WideRow == <<[key |-> <<"k">>, value |-> <<RowLetters[1]>>],
             [key |-> <<"K">>, value |-> <<RowLetters[1]>>]>>
RowsOf(n, wide) == [k \in 1..n |-> IF wide /\ k = 1 THEN WideRow ELSE RowOf(k)]
EntriesOf(n, wide) ==
    [k \in 1..n |-> [key |-> <<KeyLetters[k]>>, row |-> RowsOf(n, wide)[k]]]

\* keys fmt.Sprintf("%q") and json.Marshal write with an escape: a form
\* feed and a bell
EscapedKeys == {"\f", BEL}

TableData ==
    {PositionalData(RowsOf(n, w)) : n \in 0..MaxRows, w \in BOOLEAN}
    \cup {KeyedData(EntriesOf(n, w)) : n \in 0..MaxRows, w \in BOOLEAN}
    \cup {NilData, NilRows}
    \cup {KeyedData(<<[key |-> <<c>>, row |-> RowOf(1)]>>) : c \in EscapedKeys}

Tables == {NewTableNode(d) : d \in TableData}

\* the tables drawn inside documents
DocTables ==
    {NewTableNode(PositionalData(RowsOf(n, FALSE))) : n \in 0..MaxRows}
    \cup {NewTableNode(KeyedData(EntriesOf(n, FALSE))) : n \in 0..MaxRows}
    \cup {NewTableNode(NilData), NewTableNode(NilRows)}

\* the tables drawn for a second root position: other letters
SecondRows(n) == [k \in 1..n |-> <<[key |-> <<"G">>, value |-> <<"H">>]>>]
SecondTables == {NewTableNode(PositionalData(SecondRows(n))) : n \in 0..MaxRows}

TextLens == 1..MaxText

\* the nodes drawn for one root position: l1, l2 are the letters of its
\* leaves, t1, t2 the titles of its headings
TextShapes(l1, l2, t1, t2) ==
    {Txt(l1, n) : n \in TextLens}
    \cup {NewCodeNode(<<l1>>), NewCodeBlockNode(<<l2>>, <<l1>>),
          NewLinkNode(<<l2>>, <<l1>>), Heading(1, t1, <<>>),
          NewBaseNode(NodeTypeList,
              <<NewBaseNode(NodeTypeListItem, <<Para(<<Txt(l1, 2)>>)>>),
                NewBaseNode(NodeTypeListItem, <<Para(<<Txt(l2, 2)>>)>>)>>)}
    \cup {Para(<<Txt(l1, n)>>) : n \in TextLens}
    \cup {Para(<<Txt(l1, n), Txt(l2, m)>>) : n \in TextLens, m \in TextLens}
    \cup {Heading(1, t1, <<Para(<<Txt(l1, n)>>)>>) : n \in TextLens}
    \cup {Heading(1, t1, <<Para(<<Txt(l1, n)>>), Para(<<Txt(l2, m)>>)>>) :
             n \in TextLens, m \in TextLens}
    \cup {Heading(1, t1, <<Para(<<Txt(l1, n)>>),
                           Heading(2, t2, <<Para(<<Txt(l2, m)>>)>>)>>) :
             n \in TextLens, m \in TextLens}

ImageShapes(l1) ==
    {Para(<<Txt(l1, n), Image(<<"U">>, 1)>>) : n \in TextLens}
    \cup {Para(<<Image(<<"U">>, 1), Image(<<"V">>, 2)>>), Image(<<"U">>, 1)}

TextFirst == TextShapes("c", "d", "A", "B") \cup ImageShapes("c")
TableFirst == DocTables \cup {Heading(1, "A", <<t>>) : t \in DocTables}
SecondText ==
    {Txt("f", n) : n \in TextLens} \cup {Para(<<Txt("f", n)>>) : n \in TextLens}
    \cup {Heading(1, "C", <<Para(<<Txt("f", 2)>>)>>)}

\* the documents without a table, and those with one
TextDocs == {<<f>> : f \in TextFirst} \cup {<<f, g>> : f \in TextFirst, g \in SecondText}
TableDocs ==
    {<<f>> : f \in TableFirst}
    \cup {<<f, g>> : f \in TableFirst, g \in SecondText \cup SecondTables}
    \cup {<<Txt("c", n), g>> : n \in TextLens, g \in SecondTables}

\* nodes that report the type table or image without being a TableNode or an
\* ImageNode: a BaseNode built with that type, childless or with a child
Mistyped ==
    {NewBaseNode(t, kids) : t \in {NodeTypeTable, NodeTypeImage},
                            kids \in {<<>>, <<Txt("h", 2)>>}}

\* the documents that hold such a node
MistypedDocs ==
    {<<m>> : m \in Mistyped}
    \cup {<<m, g>> : m \in Mistyped, g \in SecondText}
    \cup {<<Txt("c", n), m>> : n \in TextLens, m \in Mistyped}
    \cup {<<Txt("c", n), m, Txt("f", k)>> : n \in TextLens, m \in Mistyped, k \in TextLens}
    \cup {<<Heading(1, "A", <<m, Para(<<Txt("d", n)>>)>>)>> : m \in Mistyped, n \in TextLens}

\* the documents with an image at the root after a text
ImageDocs ==
    {<<Txt("c", n), Image(<<"U">>, 1)>> : n \in TextLens}
    \cup {<<Txt("c", n), Image(<<"U">>, 1), Txt("f", k)>> : n \in TextLens, k \in TextLens}
    \cup {<<Image(<<"U">>, 1), Image(<<"V">>, 2), Image(<<"U">>, 1)>>}

Limits == 1..MaxLimit
DocLimits == 1..MaxTableLimit
TableLimits == (0 - 1)..MaxTableLimit

(***************************************************************************)
(* Specification SpecChunk: the outermost call of ChunkJSONMarkdown, one   *)
(* loop iteration per step.                                                *)
(***************************************************************************)
IdleBuilder ==
    /\ nodes = <<>> /\ headerStack = <<>> /\ currentHeader = Nil /\ imageRefs = <<>>
    /\ heap = <<>> /\ events = <<>> /\ imageLog = <<>>
    /\ returned = [op |-> "none", value |-> <<>>]
    /\ phase = "idle"

IdleChunk ==
    /\ markdownData = <<>> /\ charLimit = 0 /\ idx = 1 /\ currentChunk = <<>>
    /\ chunks = <<>> /\ pc = "idle" /\ frames = <<>>

IdleTable ==
    /\ table = <<>> /\ firstChunkLimit = 0 /\ nextChunksLimit = 0 /\ row = 1
    /\ chunk = <<>> /\ limit = 0 /\ tchunks = <<>> /\ tpc = "idle"

\* r := &Renderer{}: every field has its zero value
NewRenderer ==
    /\ paragraphDecoration = <<>> /\ nestedListLevel = 0
    /\ orderedListCounters = <<>> /\ indentLevel = 0
    /\ tableAlignment = <<>> /\ inTableHeader = FALSE /\ tableCellCounter = 0

IdleRender ==
    /\ NewRenderer
    /\ written = <<>> /\ walk = <<>> /\ visits = 0 /\ rpc = "idle"

InitChunk ==
    /\ \/ markdownData \in TextDocs /\ charLimit \in Limits
       \/ markdownData \in TableDocs /\ charLimit \in DocLimits
       \/ markdownData \in MistypedDocs /\ charLimit \in Limits
       \/ markdownData \in ImageDocs /\ charLimit \in Limits
    /\ idx = 1
    /\ currentChunk = <<>>
    /\ chunks = <<>>
    /\ pc = "loop"
    /\ frames = <<>>
    /\ IdleBuilder /\ IdleTable /\ IdleRender

LoopState == [chunks |-> chunks, currentChunk |-> currentChunk]

\* mutant of Iterate: the node just chunked gives up its children
Iterate_TakesChildren(st) ==
    /\ chunks' = st.chunks
    /\ currentChunk' = st.currentChunk
    /\ idx' = idx + 1
    /\ markdownData' = [markdownData EXCEPT ![idx].Children = <<>>]
    /\ UNCHANGED <<charLimit, pc, frames, bvars, tvars, rvars>>

\* the end of one iteration: only the locals chunks, currentChunk and i are
\* written
Iterate(st) ==
    /\ chunks' = st.chunks
    /\ currentChunk' = st.currentChunk
    /\ idx' = idx + 1
    /\ UNCHANGED <<markdownData, charLimit, pc, frames, bvars, tvars, rvars>>

ChunkTableNode ==
    /\ pc = "loop" /\ idx <= Len(markdownData)
    /\ markdownData[idx].Type = NodeTypeTable
    /\ Iterate(TableCase(charLimit, markdownData[idx], LoopState))

ChunkImageNode ==
    /\ pc = "loop" /\ idx <= Len(markdownData)
    /\ markdownData[idx].Type = NodeTypeImage
    /\ Iterate(ImageCase(charLimit, markdownData[idx], LoopState))

ChunkSectionNode ==
    /\ pc = "loop" /\ idx <= Len(markdownData)
    /\ markdownData[idx].Type \notin {NodeTypeTable, NodeTypeImage}
    /\ Iterate(SectionCase(charLimit, markdownData[idx], LoopState))

ChunkReturn ==
    /\ pc = "loop" /\ idx > Len(markdownData)
    /\ chunks' = LastChunk(LoopState)
    /\ pc' = "done"
    /\ UNCHANGED <<markdownData, charLimit, idx, currentChunk, frames, bvars, tvars, rvars>>

NextChunk == ChunkTableNode \/ ChunkImageNode \/ ChunkSectionNode \/ ChunkReturn

SpecChunk == InitChunk /\ [][NextChunk]_vars

(***************************************************************************)
(* Specification SpecRecursion: ChunkJSONMarkdown run call by call.  Every *)
(* call in progress is a frame holding its arguments and its locals        *)
(* (charLimit, markdownData, i, chunks, currentChunk); a node with         *)
(* children pushes the frame of the recursive call, whose budget is        *)
(* charLimit - len(section), and the return of that call pops it.  The     *)
(* budgets drawn for the outermost call include zero and negative ones.    *)
(* The call runs in one goroutine that nothing blocks: a step that can be  *)
(* taken is taken, which is weak fairness of the steps.                    *)
(***************************************************************************)
AnyLimits == (0 - MaxNegative)..MaxCallLimit

\* the documents of the outermost call: one node of every shape (the second
\* leaf of a shape is one character long), and a heading with one child
\* followed by a second node
CallFirst ==
    {Txt("c", n) : n \in TextLens}
    \cup {NewCodeNode(<<"c">>), NewCodeBlockNode(<<"d">>, <<"c">>),
          NewLinkNode(<<"d">>, <<"c">>), Heading(1, "A", <<>>),
          NewBaseNode(NodeTypeList,
              <<NewBaseNode(NodeTypeListItem, <<Para(<<Txt("c", 2)>>)>>),
                NewBaseNode(NodeTypeListItem, <<Para(<<Txt("d", 2)>>)>>)>>)}
    \cup {Para(<<Txt("c", n)>>) : n \in TextLens}
    \cup {Para(<<Txt("c", n), Txt("d", 1)>>) : n \in TextLens}
    \cup {Heading(1, "A", <<Para(<<Txt("c", n)>>)>>) : n \in TextLens}
    \cup {Heading(1, "A", <<Para(<<Txt("c", n)>>), Para(<<Txt("d", 1)>>)>>) :
             n \in TextLens}
    \cup {Heading(1, "A", <<Para(<<Txt("c", n)>>),
                           Heading(2, "B", <<Para(<<Txt("d", 1)>>)>>)>>) :
             n \in TextLens}
    \cup ImageShapes("c") \cup TableFirst \cup Mistyped

CallDocs ==
    {<<f>> : f \in CallFirst}
    \cup {<<f, g>> : f \in {h \in CallFirst :
                                h.Type = NodeTypeHeading /\ Len(h.Children) = 1},
                      g \in {Txt("f", 2), Para(<<Txt("f", 2)>>)}}
    \cup ImageDocs

InitRecursion ==
    /\ markdownData = <<>> /\ charLimit = 0 /\ idx = 1 /\ currentChunk = <<>>
    /\ chunks = <<>> /\ pc = "call" /\ frames = <<>>
    /\ IdleBuilder /\ IdleTable /\ IdleRender

\* var chunks []string; var currentChunk string; i := 0
Frame(lim, data) ==
    [lim |-> lim, data |-> data, i |-> 1, chunks |-> <<>>, currentChunk |-> <<>>]

TopFrame == frames[Len(frames)]
FrameState(f) == [chunks |-> f.chunks, currentChunk |-> f.currentChunk]
Running(f) == pc = "run" /\ f.i <= Len(f.data)
Returning(f) == pc = "run" /\ f.i > Len(f.data)

\* mutant of Advance: the iteration leaves the frame as it was
Advance_NoStep(f, st) == f

\* the end of one iteration of a frame's loop
Advance(f, st) ==
    [f EXCEPT !.chunks = st.chunks, !.currentChunk = st.currentChunk, !.i = @ + 1]

SetTop(f) ==
    /\ frames' = [frames EXCEPT ![Len(frames)] = f]
    /\ UNCHANGED <<markdownData, charLimit, idx, currentChunk, chunks, pc, bvars, tvars, rvars>>

\* the outermost call
CallChunkJSONMarkdown ==
    /\ pc = "call"
    /\ markdownData' \in CallDocs
    /\ charLimit' \in AnyLimits
    /\ frames' = <<Frame(charLimit', markdownData')>>
    /\ pc' = "run"
    /\ UNCHANGED <<idx, currentChunk, chunks, bvars, tvars, rvars>>

RunTableNode ==
    /\ Running(TopFrame)
    /\ LET f == TopFrame
           node == f.data[f.i]
       IN /\ node.Type = NodeTypeTable
          /\ SetTop(Advance(f, TableCase(f.lim, node, FrameState(f))))

RunImageNode ==
    /\ Running(TopFrame)
    /\ LET f == TopFrame
           node == f.data[f.i]
       IN /\ node.Type = NodeTypeImage
          /\ SetTop(Advance(f, ImageCase(f.lim, node, FrameState(f))))

\* a node whose GetChildren is empty: the iteration makes no call
RunSectionNode ==
    /\ Running(TopFrame)
    /\ LET f == TopFrame
           node == f.data[f.i]
       IN /\ node.Type \notin {NodeTypeTable, NodeTypeImage}
          /\ node.Children = <<>>
          /\ SetTop(Advance(f, SectionCase(f.lim, node, FrameState(f))))

\* childrenChunks := mc.ChunkJSONMarkdown(charLimit-sectionLen, childs): the
\* section is already in currentChunk when the call is made
CallOnChildren ==
    /\ Running(TopFrame)
    /\ LET f == TopFrame
           node == f.data[f.i]
           section == ToMarkdown(node)
       IN /\ node.Type \notin {NodeTypeTable, NodeTypeImage}
          /\ node.Children # <<>>
          /\ frames' = Append([frames EXCEPT ![Len(frames)].currentChunk = @ \o section],
                              Frame(f.lim - Len(section), node.Children))
    /\ UNCHANGED <<markdownData, charLimit, idx, currentChunk, chunks, pc, bvars, tvars, rvars>>

\* the recursive call returns: the caller runs the loop over childrenChunks
\* and the rest of its iteration
ReturnToCaller ==
    /\ Returning(TopFrame)
    /\ Len(frames) > 1
    /\ LET childrenChunks == LastChunk(FrameState(TopFrame))
           f == frames[Len(frames) - 1]
           node == f.data[f.i]
           section == ToMarkdown(node)
           st2 == AppendChildren(childrenChunks, 1, section, f.lim,
                                 [chunks |-> f.chunks, currentChunk |-> f.currentChunk])
       IN frames' = Append(SubSeq(frames, 1, Len(frames) - 2),
                           Advance(f, SectionTail(f.lim, node, section, st2)))
    /\ UNCHANGED <<markdownData, charLimit, idx, currentChunk, chunks, pc, bvars, tvars, rvars>>

\* the outermost call returns
ReturnChunks ==
    /\ Returning(TopFrame)
    /\ Len(frames) = 1
    /\ chunks' = LastChunk(FrameState(TopFrame))
    /\ frames' = <<>>
    /\ pc' = "done"
    /\ UNCHANGED <<markdownData, charLimit, idx, currentChunk, bvars, tvars, rvars>>

NextRecursion ==
    \/ CallChunkJSONMarkdown
    \/ RunTableNode \/ RunImageNode \/ RunSectionNode
    \/ CallOnChildren \/ ReturnToCaller \/ ReturnChunks

SpecRecursion == InitRecursion /\ [][NextRecursion]_vars /\ WF_vars(NextRecursion)

(***************************************************************************)
(* Specification SpecTable: one call of ChunkTable, one range iteration    *)
(* per step.                                                               *)
(***************************************************************************)
InitTable ==
    /\ table \in Tables
    /\ firstChunkLimit \in TableLimits
    /\ nextChunksLimit \in TableLimits
    /\ row = 1
    /\ chunk = <<>>
    /\ limit = firstChunkLimit
    /\ tchunks = <<>>
    /\ tpc = "range"
    /\ IdleBuilder /\ IdleChunk /\ IdleRender

TableState == [chunks |-> tchunks, chunk |-> chunk, limit |-> limit]

TableRange ==
    /\ tpc = "range" /\ row <= Len(table.Data.items)
    /\ LET st == ChunkTableRow(table.Data, row, TableState, nextChunksLimit)
       IN /\ tchunks' = st.chunks
          /\ chunk' = st.chunk
          /\ limit' = st.limit
    /\ row' = row + 1
    /\ UNCHANGED <<table, firstChunkLimit, nextChunksLimit, tpc, bvars, cvars, rvars>>

TableReturn ==
    /\ tpc = "range" /\ row > Len(table.Data.items)
    /\ tchunks' = ChunkTableTail(table.Data, TableState)
    /\ tpc' = "done"
    /\ UNCHANGED <<table, firstChunkLimit, nextChunksLimit, row, chunk, limit,
                   bvars, cvars, rvars>>

NextTable == TableRange \/ TableReturn

SpecTable == InitTable /\ [][NextTable]_vars

(***************************************************************************)
(* Reading the output back                                                 *)
(***************************************************************************)
RECURSIVE AllNodes(_)
\* every node of a forest
AllNodes(data) ==
    UNION {{data[k]} \cup AllNodes(data[k].Children) : k \in DOMAIN data}

\* the childless nodes of a forest
Leaves(data) == {n \in AllNodes(data) : n.Children = <<>>}

RECURSIVE DocText(_)
\* the texts of all nodes in document order (depth first)
DocText(data) ==
    IF data = <<>> THEN <<>>
    ELSE ToMarkdown(Head(data)) \o DocText(Head(data).Children) \o DocText(Tail(data))

AllLetters ==
    {"c", "d", "f", "A", "B", "C", "k", "K", "G", "H"}
    \cup {RowLetters[k] : k \in DOMAIN RowLetters}
    \cup {KeyLetters[k] : k \in DOMAIN KeyLetters}

\* the drawn letters of a node's own text
NodeLetters(n) ==
    CASE n.Kind = "TableNode" -> Chars(MarshalData(n.Data)) \cap AllLetters
      [] n.Kind = "ImageNode" -> {}
      [] OTHER -> Chars(ToMarkdown(n)) \cap AllLetters

LettersOf(ns) == UNION {NodeLetters(n) : n \in ns}

HasTableOrImage(data) ==
    \E n \in AllNodes(data) : n.Type \in {NodeTypeTable, NodeTypeImage}

OnlyTextual(data) ==
    \A n \in AllNodes(data) :
        n.Type \in {NodeTypeHeading, NodeTypeParagraph, NodeTypeList, NodeTypeListItem,
                    NodeTypeText, NodeTypeCode, NodeTypeCodeBlock}

\* the leaves whose text shows in s
LeavesIn(s, data) == {n \in Leaves(data) : NodeLetters(n) \cap Chars(s) # {}}

\* sub occurs in s and ends before position p
Precedes(s, sub, p) ==
    \E q \in 1..(p - Len(sub)) : SubSeq(s, q, q + Len(sub) - 1) = sub

\* the rows of a table fragment: the text between the fence and bracket
\* lines, cut at each ",\n"
FragmentBody(f) ==
    SubSeq(f, Len(FenceOpen) + 3, Len(f) - Len(FenceClose) - 1)

RECURSIVE SplitRows(_, _)
SplitRows(body, acc) ==
    IF body = <<>> THEN (IF acc = <<>> THEN <<>> ELSE <<acc>>)
    ELSE IF Len(body) >= 2 /\ body[1] = "," /\ body[2] = NL
         THEN <<acc>> \o SplitRows(SubSeq(body, 3, Len(body)), <<>>)
         ELSE SplitRows(Tail(body), Append(acc, Head(body)))

ParseRows(f) == SplitRows(FragmentBody(f), <<>>)

RECURSIVE ParseAll(_)
ParseAll(fs) == IF fs = <<>> THEN <<>> ELSE ParseRows(Head(fs)) \o ParseAll(Tail(fs))

\* the serialized rows of a table's data, in stored order
RowText(data, k) ==
    IF data.shape = "rows" THEN MarshalRow(data.items[k])
    ELSE Quote(data.items[k].key) \o <<":", " ">> \o MarshalRow(data.items[k].row)

RowTexts(data) == [k \in DOMAIN data.items |-> RowText(data, k)]

\* the number of rows serialized in a chunk
RECURSIVE CountRows(_)
CountRows(s) ==
    IF Len(s) < 2 THEN 0
    ELSE (IF s[1] = "," /\ s[2] = NL THEN 1 ELSE 0) + CountRows(Tail(s))

IsEmptyTable(n) == n.Kind = "TableNode" /\ Len(n.Data.items) = 0

(***************************************************************************)
(* Claims about the chunker (SpecChunk) and the table splitter (SpecTable) *)
(***************************************************************************)

\* C1: for a tree without table or image nodes, every chunk returned by
\* ChunkJSONMarkdown has length <= charLimit or holds the text of exactly
\* one leaf node.
C1_BudgetRespect ==
    (pc = "done" /\ ~HasTableOrImage(markdownData)) =>
        \A k \in DOMAIN chunks :
            \/ Len(chunks[k]) <= charLimit
            \/ Cardinality(LeavesIn(chunks[k], markdownData)) = 1

\* C2: for a tree of headings, paragraphs, lists, text and code, the chunks
\* concatenated in order and reduced to the leaves' text give the leaves'
\* texts in document order, nothing lost, reordered or repeated.
C2_Reassembly ==
    (pc = "done" /\ OnlyTextual(markdownData)) =>
        LET keep == LettersOf(Leaves(markdownData))
        IN Project(Concat(chunks), keep) = Project(DocText(markdownData), keep)

\* C3: the rows read from the fragments ChunkTable returns, fragment by
\* fragment, are the rows of the table's data: same count, same order, each
\* once.
C3_RowConservation ==
    tpc = "done" => ParseAll(tchunks) = RowTexts(table.Data)

C3_Witness ==
    tpc = "done" /\ Len(table.Data.items) >= 3 /\ Len(tchunks) >= 2
    /\ \E k \in DOMAIN tchunks : Len(ParseRows(tchunks[k])) >= 2

\* C26: every fragment ChunkTable returns holds at least one row, for any
\* limits, a firstChunkLimit smaller than the first row, zero or negative
\* included.
C26_FragmentHasRow ==
    tpc = "done" => \A k \in DOMAIN tchunks : Len(ParseRows(tchunks[k])) >= 1

\* C16: the row text accumulated in the first fragment of ChunkTable is at
\* most firstChunkLimit long and that of every later fragment at most
\* nextChunksLimit, unless the fragment holds a single row; the active
\* limit is firstChunkLimit until the first fragment is closed and
\* nextChunksLimit from then on.
C16_FragmentLimits ==
    /\ tpc = "range" =>
           limit = (IF tchunks = <<>> THEN firstChunkLimit ELSE nextChunksLimit)
    /\ tpc = "done" =>
           \A j \in DOMAIN tchunks :
               Len(ParseRows(tchunks[j])) # 1
                   => Len(FragmentBody(tchunks[j]))
                          <= (IF j = 1 THEN firstChunkLimit ELSE nextChunksLimit)

\* a text without its line ends and blanks (none occurs inside the strings
\* drawn)
StripSpace(s) == SelectSeq(s, LAMBDA c : c \notin {NL, " "})

\* the parts of s between its commas of nesting depth 0
RECURSIVE SplitTop(_, _, _)
SplitTop(s, depth, acc) ==
    IF s = <<>> THEN <<acc>>
    ELSE LET c == Head(s)
         IN IF c = "," /\ depth = 0
            THEN <<acc>> \o SplitTop(Tail(s), 0, <<>>)
            ELSE SplitTop(Tail(s),
                          depth + (IF c \in {"{", "["} THEN 1
                                   ELSE IF c \in {"}", "]"} THEN 0 - 1 ELSE 0),
                          Append(acc, c))

\* a JSON string of plain characters
IsJSONString(s) ==
    /\ Len(s) >= 2 /\ s[1] = QUOTE /\ s[Len(s)] = QUOTE
    /\ \A p \in 2..(Len(s) - 1) : s[p] \notin {QUOTE, ",", ":", "{", "}", "[", "]"}

Bracketed(s, open, close) == Len(s) >= 2 /\ s[1] = open /\ s[Len(s)] = close
Inner(s) == SubSeq(s, 2, Len(s) - 1)

\* the members of a JSON object or array text: none, or the parts between
\* the commas
Members(s) == IF Inner(s) = <<>> THEN <<>> ELSE SplitTop(Inner(s), 0, <<>>)

\* a "key": value member whose value is a string
IsStringPair(m) ==
    \E p \in DOMAIN m :
        /\ m[p] = ":"
        /\ IsJSONString(SubSeq(m, 1, p - 1))
        /\ IsJSONString(SubSeq(m, p + 1, Len(m)))

\* a JSON object of string members: a row
IsRowObject(s) ==
    /\ Bracketed(s, "{", "}")
    /\ \A k \in DOMAIN Members(s) : IsStringPair(Members(s)[k])

\* a "key": row member
IsRowPair(m) ==
    \E p \in DOMAIN m :
        /\ m[p] = ":"
        /\ IsJSONString(SubSeq(m, 1, p - 1))
        /\ IsRowObject(SubSeq(m, p + 1, Len(m)))

IsArrayOfRows(s) ==
    /\ Bracketed(s, "[", "]")
    /\ \A k \in DOMAIN Members(s) : IsRowObject(Members(s)[k])

IsObjectOfRows(s) ==
    /\ Bracketed(s, "{", "}")
    /\ \A k \in DOMAIN Members(s) : IsRowPair(Members(s)[k])

\* the text of a fragment between its fences
Fenced(f) == SubSeq(f, Len(FenceOpen) + 1, Len(f) - Len(FenceClose))

\* C17: every fragment ChunkTable returns is the opening fence, a
\* well-formed JSON value and the closing fence: an array of row objects for
\* positional data, an object of row objects for keyed data, the rows
\* separated by commas with none after the last row.
C17_FragmentJSON ==
    tpc = "done" =>
        \A j \in DOMAIN tchunks :
            LET f == tchunks[j]
            IN /\ Len(f) >= Len(FenceOpen) + Len(FenceClose)
               /\ SubSeq(f, 1, Len(FenceOpen)) = FenceOpen
               /\ SubSeq(f, Len(f) - Len(FenceClose) + 1, Len(f)) = FenceClose
               /\ IF table.Data.shape = "rows"
                  THEN IsArrayOfRows(StripSpace(Fenced(f)))
                  ELSE IsObjectOfRows(StripSpace(Fenced(f)))

\* sub is the beginning of s
StartsWith(s, sub) == Len(s) >= Len(sub) /\ SubSeq(s, 1, Len(sub)) = sub

\* the chunks that hold text nested under the node parent
ChunksUnder(parent) ==
    {k \in DOMAIN chunks :
        Chars(chunks[k]) \cap LettersOf(AllNodes(parent.Children)) # {}}

\* C6 (as stated): every chunk that contains content nested under a heading
\* (or paragraph) has that heading's (paragraph's) own ToMarkdown text as a
\* prefix, also the chunks started after a flush.
C6_SectionPrefix ==
    pc = "done" =>
        \A parent \in AllNodes(markdownData) :
            \A k \in ChunksUnder(parent) : StartsWith(chunks[k], ToMarkdown(parent))

\* C6 (amended): in every chunk, text nested under a heading (or paragraph)
\* comes after that heading's own ToMarkdown text in the same chunk, also in
\* the chunks started after a flush; and every chunk that holds text nested
\* under the first top-level node of the document begins with that node's
\* ToMarkdown text.
C6_SectionTextPrecedes ==
    pc = "done" =>
        /\ \A parent \in AllNodes(markdownData) :
               \A k \in DOMAIN chunks :
                   \A p \in DOMAIN chunks[k] :
                       chunks[k][p] \in LettersOf(AllNodes(parent.Children))
                           => Precedes(chunks[k], ToMarkdown(parent), p)
        /\ markdownData # <<>> =>
               \A k \in ChunksUnder(markdownData[1]) :
                   StartsWith(chunks[k], ToMarkdown(markdownData[1]))

\* a heading's children were split over two chunks and the second one
\* starts with the heading again
C6_Witness ==
    /\ pc = "done" /\ Len(markdownData) = 1 /\ Len(chunks) >= 2
    /\ markdownData[1].Type = NodeTypeHeading
    /\ Len(markdownData[1].Children) = 2
    /\ "d" \in Chars(chunks[Len(chunks)]) /\ "c" \notin Chars(chunks[Len(chunks)])
    /\ "c" \in Chars(chunks[1])
    /\ StartsWith(chunks[Len(chunks)], ToMarkdown(markdownData[1]))

\* C7: a tree holding one paragraph whose text is longer than charLimit
\* gives exactly one chunk, which holds the whole paragraph text.
C7_SingleParagraph ==
    (/\ pc = "done" /\ Len(markdownData) = 1
     /\ markdownData[1].Type = NodeTypeParagraph
     /\ ~HasTableOrImage(markdownData)
     /\ Len(DocText(markdownData)) > charLimit)
        => /\ Len(chunks) = 1
           /\ Contains(chunks[1], DocText(markdownData))

\* the number of table fragments opened in a chunk
RECURSIVE CountFences(_)
CountFences(s) ==
    IF Len(s) < Len(FenceOpen) THEN 0
    ELSE (IF SubSeq(s, 1, Len(FenceOpen)) = FenceOpen THEN 1 ELSE 0)
         + CountFences(Tail(s))

\* C8: every chunk that holds a table fragment, wrapper and preceding text
\* included, has length <= charLimit unless the fragment holds a single
\* row; stated for the chunks that hold one fragment of two or more rows.
C8_TableBudget ==
    pc = "done" =>
        \A k \in DOMAIN chunks :
            (CountFences(chunks[k]) = 1 /\ CountRows(chunks[k]) >= 2)
                => Len(chunks[k]) <= charLimit

\* C9: a table without rows makes ChunkTable return no fragment, for any
\* limits, and the iteration of ChunkJSONMarkdown that meets it changes
\* neither the current chunk nor the chunk list and moves to the next
\* sibling.
C9_EmptyTable ==
    [][(pc = "loop" /\ idx <= Len(markdownData) /\ IsEmptyTable(markdownData[idx]))
        => /\ \A f \in TableLimits, n \in TableLimits :
                  ChunkTable(markdownData[idx], f, n) = <<>>
           /\ currentChunk' = currentChunk
           /\ chunks' = chunks
           /\ idx' = idx + 1
           /\ pc' = "loop"]_vars

\* an empty table was passed over and the sibling after it was chunked
C9_Witness ==
    /\ pc = "done" /\ Len(markdownData) = 2
    /\ IsEmptyTable(markdownData[1])
    /\ markdownData[2].Type = NodeTypeText
    /\ chunks = <<markdownData[2].Text>>

\* a node whose type is table or image and whose cast fails
IsMistyped(n) ==
    \/ n.Type = NodeTypeTable /\ n.Kind # "TableNode"
    \/ n.Type = NodeTypeImage /\ n.Kind # "ImageNode"

\* a forest without its mistyped nodes (and their subtrees)
RECURSIVE WithoutMistyped(_)
WithoutMistyped(data) ==
    IF data = <<>> THEN <<>>
    ELSE IF IsMistyped(Head(data)) THEN WithoutMistyped(Tail(data))
    ELSE <<[Head(data) EXCEPT !.Children = WithoutMistyped(@)]>>
         \o WithoutMistyped(Tail(data))

\* C11: a node of type table (or image) that is not a TableNode (ImageNode)
\* is skipped: at the step that meets it the current chunk and the chunk list
\* stay as they are and the loop moves to the next sibling, and the chunks
\* returned are those of the tree without the node.
C11_CastFailureSkips ==
    [][/\ (pc = "loop" /\ idx <= Len(markdownData) /\ IsMistyped(markdownData[idx]))
           => /\ currentChunk' = currentChunk
              /\ chunks' = chunks
              /\ idx' = idx + 1
              /\ pc' = "loop"
       /\ pc' = "done"
           => chunks' = ChunkJSONMarkdown(charLimit, WithoutMistyped(markdownData))]_vars

\* a mistyped node between two texts was passed over, and both texts were
\* chunked
C11_Witness ==
    /\ pc = "done" /\ Len(markdownData) = 3
    /\ IsMistyped(markdownData[2]) /\ markdownData[2].Children # <<>>
    /\ Chars(Concat(chunks)) = {"c", "f"}

\* C12: no step of ChunkJSONMarkdown, the ChunkTable calls it makes
\* included, changes the node tree it was given: every node's type, fields,
\* children and table data stay as they were.
C12_TreeUnchanged == [][markdownData' = markdownData]_vars

\* a heading with a table of several rows under it was chunked into several
\* chunks
C12_Witness ==
    /\ pc = "done" /\ Len(chunks) >= 2
    /\ markdownData[1].Type = NodeTypeHeading
    /\ \E n \in AllNodes(markdownData[1].Children) :
           n.Kind = "TableNode" /\ Len(n.Data.items) >= 2

\* C15: at a table node that gives k >= 1 fragments, the current chunk is
\* put once, right before the first fragment and in the same chunk;
\* the first k-1 of the resulting strings are appended to chunks in order;
\* the k-th becomes the current chunk, and is flushed at once, leaving the
\* current chunk empty, exactly when it is longer than charLimit.
C15_TableFragments ==
    [][(/\ pc = "loop" /\ idx <= Len(markdownData)
        /\ markdownData[idx].Kind = "TableNode"
        /\ Len(markdownData[idx].Data.items) >= 1)
       => LET F == ChunkTable(markdownData[idx], charLimit - Len(currentChunk),
                              charLimit)
              k == Len(F)
              out == [j \in 1..k |-> IF j = 1 THEN currentChunk \o F[1] ELSE F[j]]
          IN /\ k >= 1
             /\ IF Len(out[k]) > charLimit
                THEN chunks' = chunks \o out /\ currentChunk' = <<>>
                ELSE /\ chunks' = chunks \o SubSeq(out, 1, k - 1)
                     /\ currentChunk' = out[k]]_vars

\* a text and then a table that gave three fragments: the text opens the
\* chunk of the first fragment
C15_Witness ==
    /\ pc = "loop" /\ idx = 3
    /\ markdownData[1].Type = NodeTypeText
    /\ markdownData[2].Kind = "TableNode"
    /\ Len(chunks) >= 2
    /\ SubSeq(chunks[1], 1, Len(markdownData[1].Text) + Len(FenceOpen))
          = markdownData[1].Text \o FenceOpen
    /\ SubSeq(chunks[2], 1, Len(FenceOpen)) = FenceOpen

\* C24: ChunkJSONMarkdown never emits an empty chunk: every string of the
\* returned list has length > 0.
C24_NoEmptyChunk ==
    pc = "done" => \A k \in DOMAIN chunks : Len(chunks[k]) > 0

\* the number of places of s where sub starts
Occurrences(s, sub) ==
    Cardinality({p \in 1..(Len(s) - Len(sub) + 1) : SubSeq(s, p, p + Len(sub) - 1) = sub})

RECURSIVE CountNodes(_, _)
\* the number of nodes of a forest that equal n
CountNodes(data, n) ==
    IF data = <<>> THEN 0
    ELSE (IF Head(data) = n THEN 1 ELSE 0) + CountNodes(Head(data).Children, n)
         + CountNodes(Tail(data), n)

RECURSIVE SumOccurrences(_, _)
SumOccurrences(ss, sub) ==
    IF ss = <<>> THEN 0 ELSE Occurrences(Head(ss), sub) + SumOccurrences(Tail(ss), sub)

ImageNodes(data) == {n \in AllNodes(data) : n.Kind = "ImageNode"}

\* C22: at an image node the step appends the image's reference placeholder,
\* and nothing else, to the current chunk; when the current chunk is then
\* longer than charLimit it is appended to chunks with the placeholder in it
\* and the current chunk becomes empty.  In the chunks returned every image
\* of the tree has its placeholder once, in a single chunk, and no chunk
\* holds an image's ToMarkdown text.
C22_ImagePlaceholder ==
    [][/\ (pc = "loop" /\ idx <= Len(markdownData) /\ markdownData[idx].Kind = "ImageNode")
           => LET withRef == currentChunk \o ToReference(markdownData[idx])
              IN /\ idx' = idx + 1
                 /\ IF Len(withRef) > charLimit
                    THEN chunks' = Append(chunks, withRef) /\ currentChunk' = <<>>
                    ELSE chunks' = chunks /\ currentChunk' = withRef
       /\ pc' = "done"
           => \A n \in ImageNodes(markdownData) :
                 /\ SumOccurrences(chunks', ToReference(n)) = CountNodes(markdownData, n)
                 /\ \A k \in DOMAIN chunks' : ~Contains(chunks'[k], ImageToMarkdown(n))]_vars

\* a text and then an image overflowed the limit: the chunk flushed holds
\* the text and the placeholder, and the text after the image is in a
\* later chunk
C22_Witness ==
    /\ pc = "done" /\ Len(markdownData) = 3
    /\ markdownData[2].Kind = "ImageNode"
    /\ Len(chunks) = 2
    /\ chunks[1] = markdownData[1].Text \o ToReference(markdownData[2])
    /\ Len(chunks[1]) > charLimit
    /\ chunks[2] = markdownData[3].Text

\* the childless nodes whose text ChunkJSONMarkdown emits through
\* ToMarkdown: texts, links, codes, code blocks and childless headings that
\* are not under a node the loop passes over
TextLeaves(data) ==
    {n \in Leaves(WithoutMistyped(data)) :
        n.Type \in {NodeTypeText, NodeTypeLink, NodeTypeCode, NodeTypeCodeBlock,
                    NodeTypeHeading}}

\* C25: the text of a childless node (text, link, code, code block,
\* childless heading) is emitted in exactly one chunk of the output, once:
\* it is not carried again into the next chunk after the flush at the end of
\* its node, nor emitted as a trailing chunk of its own.
C25_LeafTextOnce ==
    pc = "done" =>
        \A n \in TextLeaves(markdownData) :
            /\ Cardinality({k \in DOMAIN chunks : Contains(chunks[k], ToMarkdown(n))}) = 1
            /\ SumOccurrences(chunks, ToMarkdown(n)) = CountNodes(markdownData, n)

\* a root node with children whose own text is longer than the budget: the
\* recursion on its children is called with a negative budget
NegativeRecursion ==
    \E k \in DOMAIN markdownData :
        /\ markdownData[k].Type \notin {NodeTypeTable, NodeTypeImage}
        /\ markdownData[k].Children # <<>>
        /\ charLimit - Len(ToMarkdown(markdownData[k])) < 0

\* C29: ChunkJSONMarkdown terminates and returns a list of strings for every
\* tree and every integer charLimit, the zero and the negative ones
\* included: the loop reaches its return, and what it returns is the value
\* of the recursive function, a finite list of strings.
C29_Terminates ==
    /\ <>(pc = "done")
    /\ [](pc = "done" =>
            /\ chunks = ChunkJSONMarkdown(charLimit, markdownData)
            /\ \A k \in DOMAIN chunks : Len(chunks[k]) >= 0)

C29_Witness ==
    /\ pc = "done"
    /\ charLimit <= 0
    /\ NegativeRecursion
    /\ Len(chunks) >= 2

(***************************************************************************)
(* Specification Spec: a document is walked block by block through         *)
(* RenderNode, then GetNodes and GetImageURLs are called.                  *)
(***************************************************************************)
\* the k-th block of a document is titled, or starts with the text of, the
\* k-th letter, so that a node of the tree tells which block made it
BlockLetters == <<"a", "b", "c", "d", "e", "f", "g", "h">>
URLs == {<<"U">>, <<"V">>}

HeadingBlocks(k) ==
    {[Type |-> "Heading", Level |-> l, Text |-> <<BlockLetters[k]>>] : l \in 1..MaxLevel}

ImageChoices ==
    {<<>>} \cup {<<[Type |-> "Image", Destination |-> u, Alt |-> <<>>]>> : u \in URLs}

\* a line break inside a paragraph, followed by more text
BreakChoices ==
    {<<[Type |-> brk], [Type |-> "Text", Literal |-> <<"z">>]>> :
        brk \in {"Softbreak", "Hardbreak"}}

ParagraphBlocks(k) ==
    {[Type |-> "Paragraph",
      Inline |-> <<[Type |-> "Text", Literal |-> <<BlockLetters[k]>>]>> \o imgs] :
        imgs \in ImageChoices \cup BreakChoices}

\* a block quote: a paragraph with a text and an image, or nothing
QuoteBlocks(k) ==
    {[Type |-> "BlockQuote",
      Kids |-> <<[Type |-> "Paragraph",
                  Inline |-> <<[Type |-> "Text", Literal |-> <<BlockLetters[k]>>],
                               [Type |-> "Image", Destination |-> <<"U">>,
                                Alt |-> <<>>]>>]>>],
     [Type |-> "BlockQuote", Kids |-> <<>>]}

RuleBlock == [Type |-> "HorizontalRule"]

\* the blocks and breaks entered that are neither heading nor paragraph
OtherEvents == SelectSeq(events, LAMBDA e : e.Type \notin {"Heading", "Paragraph"})

\* the walk goes through the children of a paragraph after the paragraph
\* itself: the line breaks of the last paragraph entered that RenderNode
\* has not been called on yet
InlineBreaks(node) ==
    SelectSeq(node.Inline, LAMBDA n : n.Type \in {"Softbreak", "Hardbreak"})

IsBreak(e) == e.Type \in {"Softbreak", "Hardbreak"}

PendingInline ==
    LET paras == {k \in DOMAIN events : events[k].Type = "Paragraph"}
    IN IF paras = {} THEN <<>>
       ELSE LET p == CHOOSE k \in paras : \A j \in paras : j <= k
                brks == InlineBreaks(events[p])
                seen == Len(events) - p
            IN IF seen < Len(brks) /\ \A j \in (p + 1)..Len(events) : IsBreak(events[j])
               THEN SubSeq(brks, seen + 1, Len(brks))
               ELSE <<>>

\* the walk is between two blocks
BetweenBlocks == phase = "walk" /\ PendingInline = <<>>

Renderer ==
    [nodes |-> nodes, headerStack |-> headerStack, currentHeader |-> currentHeader,
     imageRefs |-> imageRefs, heap |-> heap]

SetRenderer(r) ==
    /\ nodes' = r.nodes
    /\ headerStack' = r.headerStack
    /\ currentHeader' = r.currentHeader
    /\ imageRefs' = r.imageRefs
    /\ heap' = r.heap

Init ==
    /\ nodes = NewJSONRenderer.nodes
    /\ headerStack = NewJSONRenderer.headerStack
    /\ currentHeader = NewJSONRenderer.currentHeader
    /\ imageRefs = NewJSONRenderer.imageRefs
    /\ heap = NewJSONRenderer.heap
    /\ events = <<>>
    /\ imageLog = <<>>
    /\ returned = [op |-> "none", value |-> <<>>]
    /\ phase = "walk"
    /\ IdleChunk /\ IdleTable /\ IdleRender

\* RenderNode entering a Heading
RenderNodeHeading ==
    /\ BetweenBlocks /\ Len(events) < MaxEvents
    /\ \E node \in HeadingBlocks(Len(events) + 1) :
          /\ SetRenderer(handleHeader(Renderer, node))
          /\ events' = Append(events, node)
    /\ UNCHANGED <<imageLog, returned, phase, cvars, tvars, rvars>>

\* RenderNode entering a Paragraph
RenderNodeParagraph ==
    /\ BetweenBlocks /\ Len(events) < MaxEvents
    /\ \E node \in ParagraphBlocks(Len(events) + 1) :
          LET x == extractContent(Renderer, node)
          IN /\ Len(events) + Len(InlineBreaks(node)) < MaxEvents
             /\ Len(OtherEvents) + Len(InlineBreaks(node)) <= MaxOthers
             /\ SetRenderer(AttachContent(x.r, NewParagraphNode(x.children)))
             /\ imageLog' = imageLog \o x.log
             /\ events' = Append(events, node)
    /\ UNCHANGED <<returned, phase, cvars, tvars, rvars>>

\* RenderNode entering a Hardbreak, a child of the paragraph entered last
RenderNodeHardbreak ==
    /\ phase = "walk" /\ PendingInline # <<>>
    /\ Head(PendingInline).Type = "Hardbreak"
    /\ SetRenderer(AttachContent(Renderer, NewBaseNode(NodeTypeLineBreak, <<>>)))
    /\ events' = Append(events, Head(PendingInline))
    /\ UNCHANGED <<imageLog, returned, phase, cvars, tvars, rvars>>

\* RenderNode entering a Softbreak, a child of the paragraph entered last
RenderNodeSoftbreak ==
    /\ phase = "walk" /\ PendingInline # <<>>
    /\ Head(PendingInline).Type = "Softbreak"
    /\ SetRenderer(AttachContent(Renderer, NewBaseNode(NodeTypeSoftBreak, <<>>)))
    /\ events' = Append(events, Head(PendingInline))
    /\ UNCHANGED <<imageLog, returned, phase, cvars, tvars, rvars>>

\* the blocks other than headings and paragraphs are entered on a renderer
\* that has walked some blocks (phase "walk") or as the one block of
\* SpecBlock (phase "block")
CanEnterBlock ==
    \/ phase = "block"
    \/ BetweenBlocks /\ Len(events) < MaxEvents /\ Len(OtherEvents) < MaxOthers

\* RenderNode entering a HorizontalRule
RenderNodeHorizontalRule ==
    /\ CanEnterBlock
    /\ SetRenderer(AttachContent(Renderer, NewBaseNode(NodeTypeLineSeparator, <<>>)))
    /\ events' = Append(events, RuleBlock)
    /\ phase' = "walk"
    /\ UNCHANGED <<imageLog, returned, cvars, tvars, rvars>>

\* RenderNode entering a BlockQuote; its children are skipped
RenderNodeBlockQuote ==
    /\ CanEnterBlock
    /\ \E node \in QuoteBlocks(Len(events) + 1) :
          LET quoteContent == extractContent(Renderer, node)
          IN /\ SetRenderer(AttachContent(quoteContent.r,
                     NewBaseNode(NodeTypeBlockquote, quoteContent.children)))
             /\ imageLog' = imageLog \o quoteContent.log
             /\ events' = Append(events, node)
    /\ phase' = "walk"
    /\ UNCHANGED <<returned, cvars, tvars, rvars>>

CallGetNodes ==
    /\ BetweenBlocks
    /\ LET r == finalizeHeaders(Renderer, 0)
       IN /\ SetRenderer(r)
          /\ returned' = [op |-> "GetNodes", value |-> Resolve(r.nodes, r.heap)]
    /\ phase' = "final"
    /\ UNCHANGED <<events, imageLog, cvars, tvars, rvars>>

\* RenderFooter at the end of the walk: the same finalizeHeaders(0), then
\* the root nodes are written out
CallRenderFooter ==
    /\ BetweenBlocks
    /\ LET r == finalizeHeaders(Renderer, 0)
       IN /\ SetRenderer(r)
          /\ returned' = [op |-> "RenderFooter", value |-> Resolve(r.nodes, r.heap)]
    /\ phase' = "footer"
    /\ UNCHANGED <<events, imageLog, cvars, tvars, rvars>>

\* GetNodes called once more, right after GetNodes or RenderFooter returned
CallGetNodesAgain ==
    /\ phase \in {"final", "footer"} /\ returned.op \in {"GetNodes", "RenderFooter"}
    /\ LET r == finalizeHeaders(Renderer, 0)
       IN /\ SetRenderer(r)
          /\ returned' = [op |-> IF returned.op = "GetNodes" THEN "GetNodes twice"
                                 ELSE "GetNodes after RenderFooter",
                          value |-> Resolve(r.nodes, r.heap)]
    /\ phase' = "again"
    /\ UNCHANGED <<events, imageLog, cvars, tvars, rvars>>

CallGetImageURLs ==
    /\ phase = "final" /\ returned.op = "GetNodes"
    /\ returned' = [op |-> "GetImageURLs", value |-> GetImageURLs(Renderer)]
    /\ UNCHANGED <<nodes, headerStack, currentHeader, imageRefs, heap, events,
                   imageLog, phase, cvars, tvars, rvars>>

Next ==
    \/ RenderNodeHeading \/ RenderNodeParagraph
    \/ RenderNodeHardbreak \/ RenderNodeSoftbreak
    \/ RenderNodeHorizontalRule \/ RenderNodeBlockQuote
    \/ CallGetNodes \/ CallGetImageURLs
    \/ CallRenderFooter \/ CallGetNodesAgain

Spec == Init /\ [][Next]_vars

(***************************************************************************)
(* Claims about the tree builder (Spec)                                    *)
(***************************************************************************)
IsHeadingBlock(j) == events[j].Type = "Heading"

\* block j lies under heading block i: after it, and no heading of i's
\* level or a smaller one comes in between (j itself included)
Under(i, j) ==
    /\ i < j /\ IsHeadingBlock(i)
    /\ \A k \in (i + 1)..j :
          ~(IsHeadingBlock(k) /\ events[k].Level <= events[i].Level)

Max(S) == CHOOSE x \in S : \A y \in S : y <= x
Min(S) == CHOOSE x \in S : \A y \in S : x <= y

\* the heading block that directly contains block j, 0 for a root block
ParentBlock(j) ==
    LET above == {i \in DOMAIN events : Under(i, j)}
    IN IF above = {} THEN 0 ELSE Max(above)

RECURSIVE Sorted(_)
Sorted(S) == IF S = {} THEN <<>> ELSE <<Min(S)>> \o Sorted(S \ {Min(S)})

ChildBlocks(i) == Sorted({j \in DOMAIN events : ParentBlock(j) = i})

\* the node type a content event stands for
ContentType(e) ==
    CASE e.Type = "Paragraph" -> NodeTypeParagraph
      [] e.Type = "BlockQuote" -> NodeTypeBlockquote
      [] e.Type = "HorizontalRule" -> NodeTypeLineSeparator
      [] e.Type = "Hardbreak" -> NodeTypeLineBreak
      [] e.Type = "Softbreak" -> NodeTypeSoftBreak

\* a heading is told by its title; a content node by its type and, for a
\* paragraph or a block quote, the text it starts with
ExpectedLabel(j) ==
    IF IsHeadingBlock(j) THEN events[j].Text
    ELSE <<ContentType(events[j])>>
         \o (IF events[j].Type = "Paragraph" THEN <<BlockLetters[j]>>
             ELSE IF events[j].Type = "BlockQuote" THEN extractText(events[j])
             ELSE <<>>)

\* the nesting the document asks for: each block's letter and its child
\* blocks in document order
RECURSIVE ExpectedSkeleton(_)
ExpectedSkeleton(i) ==
    LET kids == ChildBlocks(i)
    IN [k \in DOMAIN kids |->
           [label |-> ExpectedLabel(kids[k]),
            heading |-> IsHeadingBlock(kids[k]),
            kids |-> ExpectedSkeleton(kids[k])]]

\* the nesting of a built tree
RECURSIVE Skeleton(_)
Skeleton(ns) ==
    [k \in DOMAIN ns |->
        IF ns[k].Type = NodeTypeHeading
        THEN [label |-> ns[k].Title, heading |-> TRUE, kids |-> Skeleton(ns[k].Children)]
        ELSE [label |-> <<ns[k].Type>>
                        \o (IF ns[k].Children = <<>> THEN <<>> ELSE ns[k].Children[1].Text),
              heading |-> FALSE, kids |-> <<>>]]

\* C4: the tree GetNodes returns nests the blocks by heading level: a
\* heading's descendants are the blocks after it up to the next heading of
\* its level or a smaller one, children are in document order, and a
\* heading under no open heading is a root.
C4_HeadingNesting ==
    returned.op = "GetNodes" => Skeleton(returned.value) = ExpectedSkeleton(0)

\* "# a, b, ## c, # d": roots a and d, a's children [b, c]
C4_Witness ==
    /\ returned.op = "GetNodes" /\ Len(events) = 4
    /\ <<events[1].Type, events[2].Type, events[3].Type, events[4].Type>>
          = <<"Heading", "Paragraph", "Heading", "Heading">>
    /\ <<events[1].Level, events[3].Level, events[4].Level>> = <<1, 2, 1>>
    /\ Len(returned.value) = 2
    /\ Len(returned.value[1].Children) = 2
    /\ returned.value[1].Children[1].Type = NodeTypeParagraph
    /\ returned.value[1].Children[2].Title = <<"c">>
    /\ returned.value[2].Title = <<"d">>

\* a paragraph with a soft break, a separator or a block quote was walked
\* under a heading
C4_WitnessOther ==
    /\ returned.op = "GetNodes"
    /\ \E k \in DOMAIN returned.value :
          /\ returned.value[k].Type = NodeTypeHeading
          /\ \E j \in DOMAIN returned.value[k].Children :
                returned.value[k].Children[j].Type = NodeTypeSoftBreak

\* the distinct URLs of the images built so far, in order of first
\* occurrence
RECURSIVE FirstSeen(_, _)
FirstSeen(log, seen) ==
    IF log = <<>> THEN seen
    ELSE FirstSeen(Tail(log),
             IF \E k \in DOMAIN seen : seen[k] = Head(log).URL
             THEN seen ELSE Append(seen, Head(log).URL))

DistinctURLs == FirstSeen(imageLog, <<>>)

\* C5: two images with the same URL get the same reference number, and the
\* images of the N-th distinct URL get the number N.
C5_ImageNumbering ==
    /\ \A i \in DOMAIN imageLog, j \in DOMAIN imageLog :
          imageLog[i].URL = imageLog[j].URL
              => imageLog[i].Reference = imageLog[j].Reference
    /\ \A i \in DOMAIN imageLog :
          /\ imageLog[i].Reference \in DOMAIN DistinctURLs
          /\ DistinctURLs[imageLog[i].Reference] = imageLog[i].URL

\* a URL is met, another one, then the first again
C5_Witness ==
    /\ Len(imageLog) >= 3
    /\ imageLog[1].URL # imageLog[2].URL
    /\ imageLog[3].URL = imageLog[1].URL
    /\ imageLog[3].Reference = 1 /\ imageLog[2].Reference = 2

\* C10: GetImageURLs holds every distinct URL once, at position k the k-th
\* URL first met, which is the URL of the images numbered k.
C10_ImageURLs ==
    returned.op = "GetImageURLs" =>
        LET m == returned.value
        IN /\ DOMAIN m = 1..Len(DistinctURLs)
           /\ \A k \in DOMAIN m : m[k] = DistinctURLs[k]
           /\ \A j \in DOMAIN m, k \in DOMAIN m : m[j] = m[k] => j = k
           /\ \A i \in DOMAIN imageLog :
                 /\ imageLog[i].Reference \in DOMAIN m
                 /\ m[imageLog[i].Reference] = imageLog[i].URL

\* two URLs, the second one met first, one of them twice
C10_Witness ==
    /\ returned.op = "GetImageURLs"
    /\ returned.value = <<<<"V">>, <<"U">>>>
    /\ Len(imageLog) >= 3

\* C13: the levels of the headings on headerStack are strictly increasing
\* from bottom to top, after every heading event.
C13_StackIncreasing ==
    \A i \in DOMAIN headerStack, j \in DOMAIN headerStack :
        i < j => heap[headerStack[i]].Level < heap[headerStack[j]].Level

\* three headings are open after an earlier one was closed
C13_Witness ==
    /\ phase = "walk" /\ Len(headerStack) = 3
    /\ Len(heap) > Len(headerStack)
    /\ events[Len(events)].Type = "Heading"

\* the node the last event built, as it sits at the end of the child list
\* ns: a paragraph, a block quote holding its flattened text, or a
\* childless break or separator
IsLastBuilt(ns, evs) ==
    /\ Len(ns) >= 1
    /\ LET n == ns[Len(ns)]
           e == evs[Len(evs)]
       IN /\ n.Type = ContentType(e)
          /\ CASE e.Type = "Paragraph" ->
                    /\ n.Kind = "ParagraphNode"
                    /\ n.Children[1].Text = e.Inline[1].Literal
               [] e.Type = "BlockQuote" ->
                    n.Children = <<NewTextNode(extractText(e))>>
               [] OTHER -> n.Children = <<>>

\* C14: while the tree is built, currentHeader is the top of headerStack
\* whenever the stack is not empty and nil when it is empty; an event that
\* is not a heading (a paragraph, a break, a separator, a block quote)
\* appends its node as the last child of the top heading and touches
\* nothing else, or appends it to the root list when no heading was opened.
C14_DeepestOpenHeading ==
    [][phase = "walk" =>
          /\ headerStack # <<>> => currentHeader = Top(headerStack)
          /\ headerStack = <<>> => currentHeader = Nil
          /\ (Len(events') = Len(events) + 1
                 /\ events'[Len(events')].Type # "Heading")
              => IF headerStack # <<>>
                 THEN /\ nodes' = nodes
                      /\ headerStack' = headerStack
                      /\ Len(heap') = Len(heap)
                      /\ \A a \in DOMAIN heap :
                            IF a = Top(headerStack)
                            THEN /\ SubSeq(heap'[a].Children, 1, Len(heap[a].Children))
                                      = heap[a].Children
                                 /\ Len(heap'[a].Children) = Len(heap[a].Children) + 1
                                 /\ IsLastBuilt(heap'[a].Children, events')
                            ELSE heap'[a] = heap[a]
                 ELSE /\ heap' = heap
                      /\ SubSeq(nodes', 1, Len(nodes)) = nodes
                      /\ Len(nodes') = Len(nodes) + 1
                      /\ IsLastBuilt(nodes', events')]_vars

\* a paragraph was attached to the deeper of two open headings, after a
\* paragraph at the root
C14_Witness ==
    /\ phase = "walk" /\ Len(headerStack) = 2 /\ Len(nodes) = 1
    /\ events[Len(events)].Type = "Paragraph"
    /\ Len(heap[headerStack[2]].Children) = 1
    /\ heap[headerStack[1]].Children = <<>>

(***************************************************************************)
(* Specification SpecBlock: RenderNode enters one block that is not a      *)
(* heading or a paragraph (a code block, a list or a table), at the root   *)
(* or under an open heading, then GetNodes is called.                      *)
(***************************************************************************)
\* the fenced code blocks drawn: info string and literal text
CodeBlocks ==
    {[Type |-> "CodeBlock", Info |-> i, Literal |-> l] :
        i \in {<<>>, <<"g", "o">>}, l \in {<<"x", NL>>, <<"g", "o">>, <<"x", "y", NL>>}}

ItemLetters == <<"a", "b", "c", "d">>
NestedLetters == <<"n", "o", "p", "q">>
DeepLetters == <<"u", "v", "w", "z">>

\* the k-th item of a list: a paragraph, then nothing, a code block, a
\* nested list of one or two items, a nested list whose item nests a list
\* in turn, a nested list followed by a second paragraph, a block quote of
\* a paragraph, of a list, or of a paragraph and a list, a heading, or a
\* table with an empty cell in each row
ItemsAt(k) ==
    LET para(c) == [Type |-> "Paragraph",
                    Inline |-> <<[Type |-> "Text", Literal |-> <<c>>]>>]
        item(kids) == [Type |-> "Item", Kids |-> kids]
        list(items) == [Type |-> "List", Items |-> items]
    IN {item(<<para(ItemLetters[k])>>),
        item(<<para(ItemLetters[k]),
               [Type |-> "CodeBlock", Info |-> <<"g", "o">>, Literal |-> <<"x", NL>>]>>),
        item(<<para(ItemLetters[k]), list(<<item(<<para(NestedLetters[k])>>)>>)>>),
        item(<<para(ItemLetters[k]),
               list(<<item(<<para(NestedLetters[k])>>), item(<<para(DeepLetters[k])>>)>>)>>),
        item(<<para(ItemLetters[k]),
               list(<<item(<<para(NestedLetters[k]),
                             list(<<item(<<para(DeepLetters[k])>>)>>)>>)>>)>>),
        item(<<para(ItemLetters[k]), list(<<item(<<para(NestedLetters[k])>>)>>),
               para(DeepLetters[k])>>),
        item(<<para(ItemLetters[k]),
               [Type |-> "BlockQuote", Kids |-> <<para(NestedLetters[k])>>]>>),
        item(<<para(ItemLetters[k]),
               [Type |-> "BlockQuote",
                Kids |-> <<list(<<item(<<para(NestedLetters[k])>>)>>)>>]>>),
        item(<<para(ItemLetters[k]),
               [Type |-> "BlockQuote",
                Kids |-> <<para(DeepLetters[k]),
                           list(<<item(<<para(NestedLetters[k])>>)>>)>>]>>),
        item(<<para(ItemLetters[k]),
               [Type |-> "Heading", Level |-> 1, Text |-> <<NestedLetters[k]>>]>>),
        item(<<para(ItemLetters[k]),
               [Type |-> "Table", Head |-> <<<<NestedLetters[k]>>, <<>>>>,
                Body |-> <<<<<<DeepLetters[k]>>, <<>>>>>>]>>)}

RECURSIVE ItemSeqs(_)
\* the sequences of n items
ItemSeqs(n) ==
    IF n = 0 THEN {<<>>}
    ELSE {Append(its, it) : its \in ItemSeqs(n - 1), it \in ItemsAt(n)}

Lists == {[Type |-> "List", Items |-> its] : its \in UNION {ItemSeqs(n) : n \in 1..MaxItems}}

\* the header rows drawn: the first text empty or not, later texts distinct,
\* repeated or empty
HeaderRows ==
    {<<<<>>>>, <<<<>>, <<"x">>>>, <<<<>>, <<"x">>, <<"y">>>>, <<<<>>, <<"x">>, <<"x">>>>,
     <<<<>>, <<"x">>, <<>>>>, <<<<"x">>>>, <<<<"x">>, <<"y">>>>, <<<<"x">>, <<"x">>>>,
     <<<<"x">>, <<>>>>, <<<<"x">>, <<>>, <<"y">>>>}

\* the text of the cell in row i, column j: the digits i and j
CellText(i, j) == Itoa(10 * i + j)

\* a body: row 1 has n1 cells, the later rows n2; the cells of column blank
\* are empty; with dup the later rows repeat the first cell of row 1
BodyOf(nrows, n1, n2, blank, dup) ==
    [i \in 1..nrows |->
        [j \in 1..(IF i = 1 THEN n1 ELSE n2) |->
            IF j = blank THEN <<>>
            ELSE IF dup /\ j = 1 THEN CellText(1, 1)
            ELSE CellText(i, j)]]

TableBlocks ==
    {[Type |-> "Table", Head |-> h, Body |-> BodyOf(nrows, n1, n2, blank, dup)] :
        h \in HeaderRows, nrows \in 0..MaxBodyRows, n1 \in 1..MaxCells,
        n2 \in 1..MaxCells, blank \in 0..MaxCells, dup \in BOOLEAN}

\* the headings entered before the block: none, or one
PreHeadings == {<<>>, <<[Type |-> "Heading", Level |-> 1, Text |-> <<"A">>]>>}

InitBlock ==
    /\ \E pre \in PreHeadings :
          LET r == IF pre = <<>> THEN NewJSONRenderer
                   ELSE handleHeader(NewJSONRenderer, pre[1])
          IN /\ nodes = r.nodes
             /\ headerStack = r.headerStack
             /\ currentHeader = r.currentHeader
             /\ imageRefs = r.imageRefs
             /\ heap = r.heap
             /\ events = pre
    /\ imageLog = <<>>
    /\ returned = [op |-> "none", value |-> <<>>]
    /\ phase = "block"
    /\ IdleChunk /\ IdleTable /\ IdleRender

\* RenderNode entering a CodeBlock
RenderNodeCodeBlock ==
    /\ phase = "block"
    /\ \E node \in CodeBlocks :
          /\ SetRenderer(AttachContent(Renderer, RenderCodeBlock(node)))
          /\ events' = Append(events, node)
    /\ phase' = "walk"
    /\ UNCHANGED <<imageLog, returned, cvars, tvars, rvars>>

\* RenderNode entering a List
RenderNodeList ==
    /\ phase = "block"
    /\ \E node \in Lists :
          LET l == handleList(Renderer, node)
          IN /\ SetRenderer(AttachContent(l.r, l.node))
             /\ imageLog' = imageLog \o l.log
             /\ events' = Append(events, node)
    /\ phase' = "walk"
    /\ UNCHANGED <<returned, cvars, tvars, rvars>>

\* RenderNode entering a Table
RenderNodeTable ==
    /\ phase = "block"
    /\ \E node \in TableBlocks :
          /\ SetRenderer(AttachContent(Renderer, handleTable(node)))
          /\ events' = Append(events, node)
    /\ phase' = "walk"
    /\ UNCHANGED <<imageLog, returned, cvars, tvars, rvars>>

NextBlock ==
    \/ RenderNodeCodeBlock \/ RenderNodeList \/ RenderNodeTable
    \/ RenderNodeHorizontalRule \/ RenderNodeBlockQuote
    \/ CallGetNodes

SpecBlock == InitBlock /\ [][NextBlock]_vars

(***************************************************************************)
(* Claims about the block handlers (SpecBlock)                             *)
(***************************************************************************)
\* the block entered, once RenderNode has handled it
BlockEvent == events[Len(events)]
Handled(type) == phase = "walk" /\ events # <<>> /\ BlockEvent.Type = type

\* the node RenderNode attached for it
Built ==
    IF currentHeader # Nil
    THEN heap[currentHeader].Children[Len(heap[currentHeader].Children)]
    ELSE nodes[Len(nodes)]

\* a CodeBlock node that carries the fence ast
IsCodeBlockOf(n, ast) ==
    /\ n.Kind = "CodeBlockNode" /\ n.Type = NodeTypeCodeBlock
    /\ n.Language = ast.Info
    /\ n.Code = ast.Literal
    /\ ToMarkdown(n) = <<BQ, BQ, BQ>> \o ast.Info \o <<NL>> \o ast.Literal
                           \o <<NL, BQ, BQ, BQ, NL, NL>>

\* the code blocks of a list item, as the source has them and as built
SourceCodeBlocks(item) ==
    SelectSeq(Entered(<<item>>, {"List"}), LAMBDA n : n.Type = "CodeBlock")
BuiltCodeBlocks(listItem) ==
    SelectSeq(listItem.Children[1].Children, LAMBDA n : n.Type = NodeTypeCodeBlock)

\* C18: a fenced code block entered at block level becomes a CodeBlock node
\* whose language is the info string and whose code is the literal text,
\* and its ToMarkdown is the fence with the language tag and then the code;
\* so does a code block met inside the inline extraction of a list item.
C18_CodeBlock ==
    /\ Handled("CodeBlock") => IsCodeBlockOf(Built, BlockEvent)
    /\ Handled("List") =>
          \A k \in DOMAIN BlockEvent.Items :
              LET src == SourceCodeBlocks(BlockEvent.Items[k])
                  got == BuiltCodeBlocks(Built.Children[k])
              IN /\ Len(got) = Len(src)
                 /\ \A c \in DOMAIN src : IsCodeBlockOf(got[c], src[c])

\* the smaller of two numbers
Least(a, b) == IF a < b THEN a ELSE b

\* no element of seq appears twice
Distinct(seq) == \A a, b \in DOMAIN seq : a # b => seq[a] # seq[b]

\* the columns of a row, cell j under header j, when no header text repeats
ColumnsInOrder(head, cells) ==
    [j \in 1..Least(Len(head), Len(cells)) |-> [key |-> head[j], value |-> cells[j]]]

\* the first-cell texts of the body rows
RowKeys(body) == [i \in DOMAIN body |-> body[i][1]]

\* the statement of C19 as the specification has it: a keyed mapping with one
\* entry per body row, in row order, keyed by the first cell, holding the
\* remaining columns in header order
C19_KeyedOnePerRow ==
    Handled("Table") =>
        LET head == BlockEvent.Head
            body == BlockEvent.Body
        IN IF head[1] = <<>>
           THEN /\ Built.Data.shape = "keyed"
                /\ Len(Built.Data.items) = Len(body)
                /\ \A i \in DOMAIN body :
                       /\ Built.Data.items[i].key = body[i][1]
                       /\ Built.Data.items[i].row = Tail(ColumnsInOrder(head, body[i]))
           ELSE Built.Data.shape = "rows"

\* C19 (amended): for a table whose header texts are pairwise distinct and
\* whose body rows have pairwise distinct first-cell texts, when the first
\* header text is empty handleTable builds a keyed mapping with exactly one
\* entry per body row, in body-row order, keyed by that row's first-cell
\* text, each entry holding the row's remaining columns in header order with
\* the first column removed; for any table whose first header text is not
\* empty it builds a positional sequence instead.
C19_KeyedTable ==
    Handled("Table") =>
        LET head == BlockEvent.Head
            body == BlockEvent.Body
        IN IF head[1] # <<>>
           THEN Built.Kind = "TableNode" /\ Built.Data.shape = "rows"
           ELSE Distinct(head) /\ Distinct(RowKeys(body)) =>
                /\ Built.Kind = "TableNode"
                /\ Built.Data.shape = "keyed"
                /\ Len(Built.Data.items) = Len(body)
                /\ \A i \in DOMAIN body :
                       /\ Built.Data.items[i].key = body[i][1]
                       /\ Built.Data.items[i].row = Tail(ColumnsInOrder(head, body[i]))

\* a keyed table of two rows with distinct first cells and three columns
\* has been built: two entries of two columns each
C19_Witness ==
    /\ Handled("Table")
    /\ BlockEvent.Head = <<<<>>, <<"x">>, <<"y">>>>
    /\ Len(BlockEvent.Body) = 2
    /\ BlockEvent.Body[1][1] # BlockEvent.Body[2][1]
    /\ Built.Data.shape = "keyed"
    /\ Len(Built.Data.items) = 2
    /\ \A p \in 1..2 : Len(Built.Data.items[p].row) = 2

\* the statement of C20 as the specification has it: one row mapping per
\* body row, cell i under header i in header order, the cells beyond the
\* headers dropped
C20_CellUnderHeader ==
    Handled("Table") /\ BlockEvent.Head[1] # <<>> =>
        LET head == BlockEvent.Head
            body == BlockEvent.Body
        IN /\ Built.Data.shape = "rows"
           /\ Len(Built.Data.items) = Len(body)
           /\ \A i \in DOMAIN body :
                  /\ Built.Data.items[i] = ColumnsInOrder(head, body[i])
                  /\ Len(Built.Data.items[i]) <= Len(head)

\* C20 (amended): for a positional table whose header texts are pairwise
\* distinct, handleTable produces one row mapping per body row in row order;
\* in each row the i-th cell is stored under the i-th header, in header
\* order, except that an entry whose header text and cell text are both
\* empty is removed; the cells at positions beyond the number of headers
\* are dropped without error, so each row mapping has at most len(headers)
\* entries.
C20_PositionalTable ==
    Handled("Table") /\ BlockEvent.Head[1] # <<>> /\ Distinct(BlockEvent.Head) =>
        LET head == BlockEvent.Head
            body == BlockEvent.Body
        IN /\ Built.Kind = "TableNode"
           /\ Built.Data.shape = "rows"
           /\ Len(Built.Data.items) = Len(body)
           /\ \A i \in DOMAIN body :
                  /\ Built.Data.items[i] =
                         SelectSeq(ColumnsInOrder(head, body[i]),
                                   LAMBDA e : ~(e.key = <<>> /\ e.value = <<>>))
                  /\ Len(Built.Data.items[i]) <= Len(head)

\* a positional table with the headers x and the empty text has been built
\* from a row of three cells, the second empty: the row keeps the entry of
\* the first cell only
C20_Witness ==
    /\ Handled("Table")
    /\ BlockEvent.Head = <<<<"x">>, <<>>>>
    /\ Len(BlockEvent.Body) >= 1
    /\ Len(BlockEvent.Body[1]) = 3
    /\ BlockEvent.Body[1][2] = <<>>
    /\ Built.Data.shape = "rows"
    /\ Built.Data.items[1] = <<[key |-> <<"x">>, value |-> BlockEvent.Body[1][1]]>>

\* an entry with empty key and empty value
IsEmptyEntry(e) == e.key = <<>> /\ e.value = <<>>
HasEmptyEntry(rowData) == \E k \in DOMAIN rowData : IsEmptyEntry(rowData[k])

\* the body rows in which an empty cell stands under an empty header text
SpuriousRows(head, body) ==
    {i \in DOMAIN body :
        \E j \in 1..Least(Len(head), Len(body[i])) : head[j] = <<>> /\ body[i][j] = <<>>}

\* the statement of C21 as the specification has it: the row mapping that
\* holds an empty-key/empty-value entry is removed from the data
C21_SpuriousRowRemoved ==
    Handled("Table") /\ BlockEvent.Head[1] # <<>> =>
        /\ \A k \in DOMAIN Built.Data.items : ~HasEmptyEntry(Built.Data.items[k])
        /\ Len(Built.Data.items)
             = Len(BlockEvent.Body) - Cardinality(SpuriousRows(BlockEvent.Head, BlockEvent.Body))

\* C21 (amended): in a positional table, the empty-key/empty-value entry of
\* a row mapping is treated as spurious and removed from that row mapping,
\* so no row of the resulting data holds such an entry; the row mapping
\* itself stays in the data, at its place, with its other entries.
C21_SpuriousEntryRemoved ==
    Handled("Table") /\ BlockEvent.Head[1] # <<>> =>
        LET head == BlockEvent.Head
            body == BlockEvent.Body
        IN /\ Len(Built.Data.items) = Len(body)
           /\ \A i \in DOMAIN body :
                  LET rowData == Built.Data.items[i]
                  IN /\ ~HasEmptyEntry(rowData)
                     /\ \A j \in 1..Least(Len(head), Len(body[i])) :
                            head[j] # <<>> => \E k \in DOMAIN rowData : rowData[k].key = head[j]
                     /\ \A k \in DOMAIN rowData :
                            \E j \in 1..Least(Len(head), Len(body[i])) :
                                rowData[k].key = head[j] /\ rowData[k].value = body[i][j]

\* a positional table with an empty second header has been built from two
\* rows, the first with an empty second cell: both rows are in the data, the
\* first without the entry of its second cell
C21_Witness ==
    /\ Handled("Table")
    /\ BlockEvent.Head = <<<<"x">>, <<>>>>
    /\ Len(BlockEvent.Body) = 2
    /\ 1 \in SpuriousRows(BlockEvent.Head, BlockEvent.Body)
    /\ Len(Built.Data.items) = 2
    /\ Built.Data.items[1] = <<[key |-> <<"x">>, value |-> BlockEvent.Body[1][1]]>>

RECURSIVE ListsIn(_)
\* the lists among the blocks kids and in their block quotes, in order; the
\* lists inside a list belong to that list's items
ListsIn(kids) ==
    IF kids = <<>> THEN <<>>
    ELSE (CASE Head(kids).Type = "List" -> <<Head(kids)>>
            [] Head(kids).Type = "BlockQuote" -> ListsIn(Head(kids).Kids)
            [] OTHER -> <<>>)
         \o ListsIn(Tail(kids))

\* the lists nested in an item, in order: those among its blocks and those
\* inside its block quotes
NestedLists(item) == ListsIn(item.Kids)

RECURSIVE QuoteText(_)
\* the text of the blocks kids of a block quote, the nested lists left out
QuoteText(kids) ==
    IF kids = <<>> THEN <<>>
    ELSE (CASE Head(kids).Type = "Paragraph" ->
                 LET texts == SelectSeq(Head(kids).Inline, LAMBDA m : m.Type = "Text")
                 IN Concat([j \in DOMAIN texts |-> texts[j].Literal])
            [] Head(kids).Type = "BlockQuote" -> QuoteText(Head(kids).Kids)
            [] OTHER -> <<>>)
         \o QuoteText(Tail(kids))

\* the content nodes of an item's own blocks, the nested lists left out
OwnContent(item) ==
    LET own == SelectSeq(item.Kids, LAMBDA n : n.Type # "List")
        cells(n) == <<n.Head>> \o n.Body
        texts(line) == SelectSeq(line, LAMBDA cell : cell # <<>>)
        nodesOf(n) ==
            CASE n.Type = "CodeBlock" -> <<NewCodeBlockNode(n.Info, n.Literal)>>
              [] n.Type = "BlockQuote" -> <<NewTextNode(QuoteText(n.Kids))>>
              [] n.Type = "Heading" -> <<NewTextNode(n.Text)>>
              [] n.Type = "Table" ->
                   LET all == Concat([i \in DOMAIN cells(n) |-> texts(cells(n)[i])])
                   IN [i \in DOMAIN all |-> NewTextNode(all[i])]
              [] OTHER -> <<NewTextNode(n.Inline[1].Literal)>>
    IN Concat([j \in DOMAIN own |-> nodesOf(own[j])])

RECURSIVE ExpectedList(_)
\* the tree of a source list: a List node with one ListItem per item of the
\* list; a ListItem holds the paragraph of the item's own content and then
\* one List per list nested in the item
ExpectedList(list) ==
    NewBaseNode(NodeTypeList,
        [k \in DOMAIN list.Items |->
            LET nested == NestedLists(list.Items[k])
            IN NewBaseNode(NodeTypeListItem,
                   <<NewParagraphNode(OwnContent(list.Items[k]))>>
                   \o [j \in DOMAIN nested |-> ExpectedList(nested[j])])])

\* the letters drawn for the items of lists
ListLetters ==
    {ItemLetters[k] : k \in DOMAIN ItemLetters} \cup {NestedLetters[k] : k \in DOMAIN NestedLetters}
    \cup {DeepLetters[k] : k \in DOMAIN DeepLetters}

\* the letters of the Text nodes of a forest, one entry per Text node
RECURSIVE TextLetters(_)
TextLetters(data) ==
    IF data = <<>> THEN <<>>
    ELSE (IF Head(data).Kind = "TextNode" THEN Head(data).Text ELSE <<>>)
         \o TextLetters(Head(data).Children) \o TextLetters(Tail(data))

\* C23: for a list with nested lists, every item of the source is one
\* ListItem child of the List node of the list that directly contains it; a
\* nested list is a child List of its containing item; the items of a nested
\* list are not repeated under the outer list and their text is not in the
\* containing item's paragraph: every item's text is in the tree once.
C23_ListItemsOnce ==
    Handled("List") =>
        /\ Built = ExpectedList(BlockEvent)
        /\ Len(Built.Children) = Len(BlockEvent.Items)
        /\ \A c \in ListLetters : Occurrences(TextLetters(<<Built>>), <<c>>) <= 1
        /\ \A k \in DOMAIN BlockEvent.Items :
               LET para == Built.Children[k].Children[1]
               IN /\ para.Type = NodeTypeParagraph
                  /\ \A j \in DOMAIN NestedLists(BlockEvent.Items[k]) :
                         Chars(TextLetters(<<para>>))
                            \cap Chars(TextLetters(<<ExpectedList(NestedLists(BlockEvent.Items[k])[j])>>))
                         = {}

RECURSIVE HeadingTitles(_)
\* the titles of the headings of a forest, in document order
HeadingTitles(data) ==
    IF data = <<>> THEN <<>>
    ELSE (IF Head(data).Kind = "HeadingNode" THEN Head(data).Title ELSE <<>>)
         \o HeadingTitles(Head(data).Children) \o HeadingTitles(Tail(data))

\* the number of places, in the root list and in the child lists of all
\* headings, that hold the heading at address a
Parents(a) ==
    Cardinality({k \in DOMAIN nodes : nodes[k] = Ptr(a)})
    + Cardinality({p \in (DOMAIN heap) \X (1..(MaxEvents + 1)) :
                      /\ p[2] \in DOMAIN heap[p[1]].Children
                      /\ heap[p[1]].Children[p[2]] = Ptr(a)})

HeadingEvents == {j \in DOMAIN events : events[j].Type = "Heading"}

\* C27: after GetNodes (or RenderFooter) has returned, headerStack is empty
\* and every heading entered during the walk is exactly once in the tree
\* under the root list: none is lost, none has two parents.
C27_HeadingsOnce ==
    phase \in {"final", "footer"} =>
        /\ headerStack = <<>>
        /\ Len(heap) = Cardinality(HeadingEvents)
        /\ \A a \in DOMAIN heap : Parents(a) = 1
        /\ Len(HeadingTitles(Resolve(nodes, heap))) = Cardinality(HeadingEvents)
        /\ \A j \in HeadingEvents :
               Occurrences(HeadingTitles(Resolve(nodes, heap)), events[j].Text) = 1

\* GetNodes has closed three open headings, nested in one another, after
\* an earlier heading had been closed at the root
C27_Witness ==
    /\ phase = "final" /\ returned.op = "GetNodes"
    /\ Cardinality(HeadingEvents) = 4
    /\ Len(nodes) = 2
    /\ nodes[1].Kind = "ptr" /\ nodes[2].Kind = "ptr"
    /\ HeadingTitles(Resolve(<<nodes[2]>>, heap)) = <<"b", "c", "d">>
    /\ headerStack = <<>>

\* C28: finalizing is idempotent: GetNodes called a second time, or after
\* RenderFooter, with no event in between, returns the root list and the tree
\* the first call returned and appends no heading a second time; the
\* renderer is left as it was.
C28_FinalizeIdempotent ==
    [][(phase \in {"final", "footer"} /\ phase' = "again")
       => /\ returned.op \in {"GetNodes", "RenderFooter"}
          /\ returned'.value = returned.value
          /\ nodes' = nodes
          /\ heap' = heap
          /\ headerStack' = headerStack
          /\ currentHeader' = currentHeader]_vars

\* GetNodes has been called after RenderFooter on a document with a heading
\* under a heading and two root nodes
C28_Witness ==
    /\ phase = "again" /\ returned.op = "GetNodes after RenderFooter"
    /\ Len(returned.value) = 2
    /\ Len(heap) >= 2
    /\ \E k \in DOMAIN returned.value :
           /\ returned.value[k].Kind = "HeadingNode"
           /\ \E c \in DOMAIN returned.value[k].Children :
                  returned.value[k].Children[c].Kind = "HeadingNode"

\* GetNodes has been called twice on a document with headings
C28_WitnessTwice ==
    /\ phase = "again" /\ returned.op = "GetNodes twice"
    /\ Len(heap) >= 2

(***************************************************************************)
(* Specification SpecRender: the Markdown re-serializer.  blackfriday      *)
(* walks a document and calls mdrenderer.Renderer.RenderNode on entering   *)
(* every node and on leaving every container.  walk is the path of the     *)
(* walker: the nodes entered and not yet left.  The tree is not fixed in   *)
(* advance: at every step the walker enters any child the node it is in    *)
(* can hold, or leaves it, so every prefix of every walk is reached.       *)
(* A node is [Type, Ordered, Tight, Kids]: Ordered is an item's ListFlags  *)
(* & ListTypeOrdered != 0, Tight the list's Tight, Kids the number of      *)
(* children visited so far (node.Prev != nil is Kids > 0 in the parent).   *)
(***************************************************************************)
bfDocument == "Document"
bfBlockQuote == "BlockQuote"
bfList == "List"
bfItem == "Item"
bfParagraph == "Paragraph"
bfHeading == "Heading"
bfHorizontalRule == "HorizontalRule"
bfEmph == "Emph"
bfStrong == "Strong"
bfDel == "Del"
bfLink == "Link"
bfImage == "Image"
bfCode == "Code"
bfText == "Text"
bfCodeBlock == "CodeBlock"
bfSoftbreak == "Softbreak"
bfHardbreak == "Hardbreak"
bfHTMLBlock == "HTMLBlock"
bfHTMLSpan == "HTMLSpan"
bfTable == "Table"
bfTableHead == "TableHead"
bfTableBody == "TableBody"
bfTableRow == "TableRow"
bfTableCell == "TableCell"

TableAlignmentLeft == "left"
TableAlignmentRight == "right"
TableAlignmentCenter == "center"
Alignments == {"none", TableAlignmentLeft, TableAlignmentRight, TableAlignmentCenter}

\* what blackfriday nests in what: a list holds items; an item, a block
\* quote and the document hold blocks; a paragraph, a heading, a table cell
\* and every span hold inline nodes; a table holds a head and a body, these
\* hold rows, and a row holds cells
Blocks == {bfBlockQuote, bfList, bfParagraph, bfCodeBlock, bfHeading,
           bfHorizontalRule, bfHTMLBlock, bfTable}
Spans == {bfEmph, bfStrong, bfDel, bfLink, bfImage}
Inlines == Spans \cup {bfText, bfCode, bfSoftbreak, bfHardbreak, bfHTMLSpan}
CanHold(parentType, type) ==
    CASE parentType \in {bfDocument, bfBlockQuote, bfItem} -> type \in Blocks
      [] parentType = bfList -> type = bfItem
      [] parentType \in {bfParagraph, bfHeading, bfTableCell} \cup Spans ->
            type \in Inlines
      [] parentType = bfTable -> type \in {bfTableHead, bfTableBody}
      [] parentType \in {bfTableHead, bfTableBody} -> type = bfTableRow
      [] parentType = bfTableRow -> type = bfTableCell
      [] OTHER -> FALSE

\* the documents walked, by the kinds of node they hold and the most
\* RenderNode calls followed: lists, block quotes, paragraphs and code
\* blocks; headings, rules, paragraphs and inline markup; tables
ListDocs ==
    [Holds |-> {bfBlockQuote, bfList, bfItem, bfParagraph, bfText, bfCodeBlock},
     Calls |-> MaxVisits]
MarkupDocs ==
    [Holds |-> {bfHeading, bfParagraph, bfHorizontalRule, bfHTMLBlock} \cup Inlines,
     Calls |-> MaxMarkupVisits]
TableOnlyDocs ==
    [Holds |-> {bfTable, bfTableHead, bfTableBody, bfTableRow, bfTableCell, bfText},
     Calls |-> MaxTableVisits]
RenderDocs == {ListDocs, MarkupDocs, TableOnlyDocs}

BfNode(type, ordered, tight) ==
    [Type |-> type, Ordered |-> ordered, Tight |-> tight, Kids |-> 0,
     Title |-> <<>>, Columns |-> 0, Holds |-> {}, Calls |-> 0]

Walking == rpc = "walk" /\ walk # <<>>
Innermost == walk[Len(walk)]
CanEnter(type) ==
    /\ Walking /\ visits < walk[1].Calls /\ Len(walk) < MaxOpen
    /\ type \in walk[1].Holds
    /\ CanHold(Innermost.Type, type)
CanLeave(type) == Walking /\ visits < walk[1].Calls /\ Innermost.Type = type

\* the walker steps into a child of the innermost node
EnterNode(node) ==
    /\ walk' = Append([walk EXCEPT ![Len(walk)].Kids = @ + 1], node)
    /\ visits' = visits + 1
    /\ rpc' = "walk"

\* the walker leaves the innermost node
LeaveNode ==
    /\ walk' = SubSeq(walk, 1, Len(walk) - 1)
    /\ visits' = visits + 1
    /\ rpc' = "walk"

\* a node that is not a container is visited once
VisitLeaf ==
    /\ walk' = [walk EXCEPT ![Len(walk)].Kids = @ + 1]
    /\ visits' = visits + 1
    /\ rpc' = "walk"

\* an index out of range stops the program inside the call: what the call
\* had assigned and written before stays, the call does not return
Panic ==
    /\ rpc' = "panic"
    /\ UNCHANGED <<walk, visits>>

Write(bytes) == written' = written \o bytes

\* strings.Repeat("    ", r.indentLevel)
currentIndentation == Rep(" ", 4 * indentLevel)

tableFields == <<tableAlignment, inTableHeader, tableCellCounter>>
listFields == <<paragraphDecoration, nestedListLevel, orderedListCounters, indentLevel>>

InitRender == IdleBuilder /\ IdleChunk /\ IdleTable /\ IdleRender

\* case bf.Document, entering
EnterDocument ==
    /\ rpc = "idle"
    /\ \E doc \in RenderDocs :
          walk' = <<[BfNode(bfDocument, FALSE, FALSE)
                        EXCEPT !.Holds = doc.Holds, !.Calls = doc.Calls]>>
    /\ visits' = visits + 1
    /\ rpc' = "walk"
    /\ UNCHANGED <<listFields, tableFields, written, bvars, cvars, tvars>>

\* case bf.Document, leaving: the walk is over
LeaveDocument ==
    /\ CanLeave(bfDocument)
    /\ walk' = <<>>
    /\ visits' = visits + 1
    /\ rpc' = "done"
    /\ UNCHANGED <<listFields, tableFields, written, bvars, cvars, tvars>>

\* case bf.BlockQuote, entering
EnterBlockQuote ==
    /\ CanEnter(bfBlockQuote)
    /\ Write(currentIndentation)
    /\ paragraphDecoration' = paragraphDecoration \o <<">", " ">>
    /\ EnterNode(BfNode(bfBlockQuote, FALSE, FALSE))
    /\ UNCHANGED <<nestedListLevel, orderedListCounters, indentLevel, tableFields,
                   bvars, cvars, tvars>>

\* mutant of LeaveBlockQuote: one byte of the decoration is dropped
LeaveBlockQuote_DropsOne ==
    /\ CanLeave(bfBlockQuote)
    /\ IF Len(paragraphDecoration) < 1
       THEN Panic /\ UNCHANGED <<paragraphDecoration, written>>
       ELSE /\ paragraphDecoration' =
                   SubSeq(paragraphDecoration, 1, Len(paragraphDecoration) - 1)
            /\ Write(<<NL>>)
            /\ LeaveNode
    /\ UNCHANGED <<nestedListLevel, orderedListCounters, indentLevel, tableFields,
                   bvars, cvars, tvars>>

\* case bf.BlockQuote, leaving; the slice expression is the first statement
LeaveBlockQuote ==
    /\ CanLeave(bfBlockQuote)
    /\ IF Len(paragraphDecoration) < 2
       THEN Panic /\ UNCHANGED <<paragraphDecoration, written>>
       ELSE /\ paragraphDecoration' =
                   SubSeq(paragraphDecoration, 1, Len(paragraphDecoration) - 2)
            /\ Write(<<NL>>)
            /\ LeaveNode
    /\ UNCHANGED <<nestedListLevel, orderedListCounters, indentLevel, tableFields,
                   bvars, cvars, tvars>>

\* case bf.List, entering
EnterList ==
    /\ CanEnter(bfList)
    /\ \E tight \in BOOLEAN : EnterNode(BfNode(bfList, FALSE, tight))
    /\ nestedListLevel' = nestedListLevel + 1
    /\ orderedListCounters' = Append(orderedListCounters, 0)
    /\ UNCHANGED <<paragraphDecoration, indentLevel, tableFields, written,
                   bvars, cvars, tvars>>

\* case bf.List, leaving; nestedListLevel is decremented before the slice
\* expression is evaluated
LeaveList ==
    /\ CanLeave(bfList)
    /\ nestedListLevel' = nestedListLevel - 1
    /\ IF orderedListCounters = <<>>
       THEN Panic /\ UNCHANGED <<orderedListCounters, written>>
       ELSE /\ orderedListCounters' =
                   SubSeq(orderedListCounters, 1, Len(orderedListCounters) - 1)
            /\ Write(IF nestedListLevel' = 0 THEN <<NL>> ELSE <<>>)
            /\ LeaveNode
    /\ UNCHANGED <<paragraphDecoration, indentLevel, tableFields, bvars, cvars, tvars>>

\* case bf.Item, entering; the delimiter drawn is "." and the bullet "-";
\* the indentation is written and indentLevel incremented before the
\* counter is indexed
EnterItem ==
    /\ CanEnter(bfItem)
    /\ indentLevel' = indentLevel + 1
    /\ \E ordered \in BOOLEAN :
          IF ordered /\ orderedListCounters = <<>>
          THEN /\ Write(currentIndentation)
               /\ Panic
               /\ UNCHANGED orderedListCounters
          ELSE /\ orderedListCounters' =
                      IF ordered
                      THEN [orderedListCounters EXCEPT ![Len(orderedListCounters)] = @ + 1]
                      ELSE orderedListCounters
               /\ Write(currentIndentation \o
                        (IF ordered
                         THEN Itoa(orderedListCounters'[Len(orderedListCounters)])
                              \o <<".", " ">>
                         ELSE <<"-", " ">>))
               /\ EnterNode(BfNode(bfItem, ordered, FALSE))
    /\ UNCHANGED <<paragraphDecoration, nestedListLevel, tableFields, bvars, cvars, tvars>>

\* case bf.Item, leaving
LeaveItem ==
    /\ CanLeave(bfItem)
    /\ indentLevel' = indentLevel - 1
    /\ LeaveNode
    /\ UNCHANGED <<paragraphDecoration, nestedListLevel, orderedListCounters,
                   tableFields, written, bvars, cvars, tvars>>

\* case bf.Paragraph, entering
EnterParagraph ==
    /\ CanEnter(bfParagraph)
    /\ Write(IF Innermost.Type = bfItem
             THEN (IF Innermost.Kids > 0 THEN currentIndentation ELSE <<>>)
             ELSE paragraphDecoration)
    /\ EnterNode(BfNode(bfParagraph, FALSE, FALSE))
    /\ UNCHANGED <<listFields, tableFields, bvars, cvars, tvars>>

\* skipParagraphNewline for the paragraph that is the innermost node
skipParagraphNewline ==
    LET parent == walk[Len(walk) - 1]
    IN IF parent.Type = bfBlockQuote THEN TRUE
       ELSE IF Len(walk) < 3 \/ walk[Len(walk) - 2].Type # bfList THEN FALSE
       ELSE walk[Len(walk) - 2].Tight

\* case bf.Paragraph, leaving
LeaveParagraph ==
    /\ CanLeave(bfParagraph)
    /\ Write(IF skipParagraphNewline THEN <<NL>> ELSE <<NL, NL>>)
    /\ LeaveNode
    /\ UNCHANGED <<listFields, tableFields, bvars, cvars, tvars>>

\* case bf.Heading, entering: strings.Repeat("#", node.Level) + " "
EnterHeading ==
    /\ CanEnter(bfHeading)
    /\ \E level \in 1..MaxLevel : Write(Rep("#", level) \o <<" ">>)
    /\ EnterNode(BfNode(bfHeading, FALSE, FALSE))
    /\ UNCHANGED <<listFields, tableFields, bvars, cvars, tvars>>

\* case bf.Heading, leaving
LeaveHeading ==
    /\ CanLeave(bfHeading)
    /\ Write(<<NL, NL>>)
    /\ LeaveNode
    /\ UNCHANGED <<listFields, tableFields, bvars, cvars, tvars>>

\* case bf.HorizontalRule
RenderHorizontalRule ==
    /\ CanEnter(bfHorizontalRule)
    /\ Write(<<"-", "-", "-", NL, NL>>)
    /\ VisitLeaf
    /\ UNCHANGED <<listFields, tableFields, bvars, cvars, tvars>>

\* case bf.Emph: the same bytes when the node is entered and when it is left
RenderEmph ==
    /\ \/ CanEnter(bfEmph) /\ EnterNode(BfNode(bfEmph, FALSE, FALSE))
       \/ CanLeave(bfEmph) /\ LeaveNode
    /\ Write(<<"*">>)
    /\ UNCHANGED <<listFields, tableFields, bvars, cvars, tvars>>

\* case bf.Strong
RenderStrong ==
    /\ \/ CanEnter(bfStrong) /\ EnterNode(BfNode(bfStrong, FALSE, FALSE))
       \/ CanLeave(bfStrong) /\ LeaveNode
    /\ Write(<<"*", "*">>)
    /\ UNCHANGED <<listFields, tableFields, bvars, cvars, tvars>>

\* case bf.Del
RenderDel ==
    /\ \/ CanEnter(bfDel) /\ EnterNode(BfNode(bfDel, FALSE, FALSE))
       \/ CanLeave(bfDel) /\ LeaveNode
    /\ Write(<<"~", "~">>)
    /\ UNCHANGED <<listFields, tableFields, bvars, cvars, tvars>>

\* the titles drawn for a link or an image: none, or "T"
Titles == {<<>>, <<"T">>}

\* what the Link and the Image case write on leaving; the destination drawn
\* is "u"
LinkTail(node) ==
    <<"]", "(">> \o <<"u">>
    \o (IF Len(node.Title) > 0 THEN <<>> \o node.Title \o <<QUOTE>> ELSE <<>>)
    \o <<")">>

\* case bf.Link, entering
EnterLink ==
    /\ CanEnter(bfLink)
    /\ Write(<<"[">>)
    /\ \E title \in Titles :
          EnterNode([BfNode(bfLink, FALSE, FALSE) EXCEPT !.Title = title])
    /\ UNCHANGED <<listFields, tableFields, bvars, cvars, tvars>>

\* case bf.Link, leaving
LeaveLink ==
    /\ CanLeave(bfLink)
    /\ Write(LinkTail(Innermost))
    /\ LeaveNode
    /\ UNCHANGED <<listFields, tableFields, bvars, cvars, tvars>>

\* case bf.Image, entering
EnterImage ==
    /\ CanEnter(bfImage)
    /\ Write(<<"!", "[">>)
    /\ \E title \in Titles :
          EnterNode([BfNode(bfImage, FALSE, FALSE) EXCEPT !.Title = title])
    /\ UNCHANGED <<listFields, tableFields, bvars, cvars, tvars>>

\* case bf.Image, leaving
LeaveImage ==
    /\ CanLeave(bfImage)
    /\ Write(LinkTail(Innermost))
    /\ LeaveNode
    /\ UNCHANGED <<listFields, tableFields, bvars, cvars, tvars>>

\* case bf.Code, with the literal "c"
RenderCode ==
    /\ CanEnter(bfCode)
    /\ Write(<<BQ>> \o <<"c">> \o <<BQ>>)
    /\ VisitLeaf
    /\ UNCHANGED <<listFields, tableFields, bvars, cvars, tvars>>

\* case bf.Text: w.Write(node.Literal); the literal drawn is "t"
RenderText ==
    /\ CanEnter(bfText)
    /\ Write(<<"t">>)
    /\ VisitLeaf
    /\ UNCHANGED <<listFields, tableFields, bvars, cvars, tvars>>

\* case bf.CodeBlock, with the info "go" and the literal "c\n"
RenderCodeBlockNode ==
    /\ CanEnter(bfCodeBlock)
    /\ Write(currentIndentation \o <<BQ, BQ, BQ, "g", "o", NL, "c", NL,
                                     BQ, BQ, BQ, NL, NL>>)
    /\ VisitLeaf
    /\ UNCHANGED <<listFields, tableFields, bvars, cvars, tvars>>

\* case bf.Softbreak
RenderSoftbreak ==
    /\ CanEnter(bfSoftbreak)
    /\ Write(<<NL>>)
    /\ VisitLeaf
    /\ UNCHANGED <<listFields, tableFields, bvars, cvars, tvars>>

\* case bf.Hardbreak
RenderHardbreak ==
    /\ CanEnter(bfHardbreak)
    /\ Write(<<" ", " ", NL>>)
    /\ VisitLeaf
    /\ UNCHANGED <<listFields, tableFields, bvars, cvars, tvars>>

\* case bf.HTMLBlock, bf.HTMLSpan: w.Write(node.Literal); the literal drawn
\* is "<i>"
RenderHTML ==
    /\ \E type \in {bfHTMLBlock, bfHTMLSpan} : CanEnter(type)
    /\ Write(<<"<", "i", ">">>)
    /\ VisitLeaf
    /\ UNCHANGED <<listFields, tableFields, bvars, cvars, tvars>>

\* case bf.Table, entering; the parser gives every row of a table the same
\* number of cells
EnterTable ==
    /\ CanEnter(bfTable)
    /\ \E columns \in 1..MaxColumns :
          EnterNode([BfNode(bfTable, FALSE, FALSE) EXCEPT !.Columns = columns])
    /\ UNCHANGED <<listFields, tableFields, written, bvars, cvars, tvars>>

\* case bf.Table, leaving; a table has a head and a body
LeaveTable ==
    /\ CanLeave(bfTable)
    /\ Innermost.Kids = 2
    /\ Write(<<NL>>)
    /\ LeaveNode
    /\ UNCHANGED <<listFields, tableFields, bvars, cvars, tvars>>

\* case bf.TableHead, entering; the head is the first child of the table
EnterTableHead ==
    /\ CanEnter(bfTableHead)
    /\ Innermost.Kids = 0
    /\ inTableHeader' = TRUE
    /\ tableAlignment' = <<>>
    /\ EnterNode(BfNode(bfTableHead, FALSE, FALSE))
    /\ UNCHANGED <<listFields, tableCellCounter, written, bvars, cvars, tvars>>

\* the bytes of the switch on align
AlignmentMark(align) ==
    CASE align = TableAlignmentLeft -> <<" ", ":", "-", "-", "-">>
      [] align = TableAlignmentRight -> <<" ", "-", "-", "-", ":">>
      [] align = TableAlignmentCenter -> <<" ", ":", "-", "-", "-", ":">>
      [] OTHER -> <<" ", "-", "-", "-">>

\* the bytes of the loop over r.tableAlignment
AlignmentRow(aligns) ==
    Concat([i \in 1..Len(aligns) |->
               (IF i > 1 THEN <<" ", "|">> ELSE <<>>) \o AlignmentMark(aligns[i])])

\* case bf.TableHead, leaving; the head holds one row
LeaveTableHead ==
    /\ CanLeave(bfTableHead)
    /\ Innermost.Kids = 1
    /\ inTableHeader' = FALSE
    /\ Write(<<"|">> \o AlignmentRow(tableAlignment) \o <<" ", "|">> \o <<NL>>)
    /\ LeaveNode
    /\ UNCHANGED <<listFields, tableAlignment, tableCellCounter, bvars, cvars, tvars>>

\* case bf.TableBody: no action needed; the body is the second child of the
\* table
RenderTableBody ==
    /\ \/ /\ CanEnter(bfTableBody)
          /\ Innermost.Kids = 1
          /\ EnterNode(BfNode(bfTableBody, FALSE, FALSE))
       \/ CanLeave(bfTableBody) /\ LeaveNode
    /\ UNCHANGED <<listFields, tableFields, written, bvars, cvars, tvars>>

\* case bf.TableRow, entering
EnterTableRow ==
    /\ CanEnter(bfTableRow)
    /\ Innermost.Kids < (IF Innermost.Type = bfTableHead THEN 1 ELSE MaxBodyRows)
    /\ tableCellCounter' = 0
    /\ Write(<<"|", " ">>)
    /\ EnterNode(BfNode(bfTableRow, FALSE, FALSE))
    /\ UNCHANGED <<listFields, tableAlignment, inTableHeader, bvars, cvars, tvars>>

\* the table of the row that is the innermost node
TableOfRow == walk[Len(walk) - 2]

\* case bf.TableRow, leaving
LeaveTableRow ==
    /\ CanLeave(bfTableRow)
    /\ Innermost.Kids = TableOfRow.Columns
    /\ Write(<<" ", "|">> \o <<NL>>)
    /\ LeaveNode
    /\ UNCHANGED <<listFields, tableFields, bvars, cvars, tvars>>

\* case bf.TableCell, entering
EnterTableCell ==
    /\ CanEnter(bfTableCell)
    /\ Innermost.Kids < TableOfRow.Columns
    /\ Write(IF tableCellCounter > 0 THEN <<" ", "|", " ">> ELSE <<>>)
    /\ tableCellCounter' = tableCellCounter + 1
    /\ \E align \in Alignments :
          tableAlignment' = IF inTableHeader THEN Append(tableAlignment, align)
                            ELSE tableAlignment
    /\ EnterNode(BfNode(bfTableCell, FALSE, FALSE))
    /\ UNCHANGED <<listFields, inTableHeader, bvars, cvars, tvars>>

\* case bf.TableCell, leaving: nothing is done
LeaveTableCell ==
    /\ CanLeave(bfTableCell)
    /\ LeaveNode
    /\ UNCHANGED <<listFields, tableFields, written, bvars, cvars, tvars>>

NextRender ==
    \/ EnterDocument \/ LeaveDocument
    \/ EnterBlockQuote \/ LeaveBlockQuote
    \/ EnterList \/ LeaveList
    \/ EnterItem \/ LeaveItem
    \/ EnterParagraph \/ LeaveParagraph
    \/ EnterHeading \/ LeaveHeading
    \/ RenderHorizontalRule
    \/ RenderEmph \/ RenderStrong \/ RenderDel
    \/ EnterLink \/ LeaveLink
    \/ EnterImage \/ LeaveImage
    \/ RenderCode \/ RenderText \/ RenderCodeBlockNode
    \/ RenderSoftbreak \/ RenderHardbreak \/ RenderHTML
    \/ EnterTable \/ LeaveTable
    \/ EnterTableHead \/ LeaveTableHead
    \/ RenderTableBody
    \/ EnterTableRow \/ LeaveTableRow
    \/ EnterTableCell \/ LeaveTableCell

SpecRender == InitRender /\ [][NextRender]_vars

Open(type) == Cardinality({k \in DOMAIN walk : walk[k].Type = type})

\* C30: after any prefix of a walk, nestedListLevel equals
\* len(orderedListCounters), indentLevel equals the number of list items
\* entered and not yet left, and len(paragraphDecoration) equals twice the
\* number of block quotes entered and not yet left; after a complete
\* document all three are zero; no call stops on an index out of range.
C30_RenderCounters ==
    /\ rpc # "panic"
    /\ nestedListLevel = Len(orderedListCounters)
    /\ nestedListLevel = Open(bfList)
    /\ indentLevel = Open(bfItem)
    /\ Len(paragraphDecoration) = 2 * Open(bfBlockQuote)
    /\ rpc = "done" =>
          /\ nestedListLevel = 0 /\ indentLevel = 0 /\ paragraphDecoration = <<>>
          /\ orderedListCounters = <<>>

\* a block quote open inside an item of a list nested in another list
C30_Witness ==
    /\ rpc = "walk"
    /\ Open(bfList) = 2 /\ Open(bfItem) = 2 /\ Open(bfBlockQuote) = 1
    /\ Innermost.Type = bfParagraph

\* a document with a block quote in an ordered item has been walked to its
\* end
C30_WitnessDone ==
    /\ rpc = "done"
    /\ Contains(written, <<"1", ".", " ", " ", " ", " ", " ", NL>>)

\* a table of two columns, the first aligned left, has been walked to its end
C30_WitnessTable ==
    /\ rpc = "done"
    /\ Contains(written, <<"|", " ", "t", " ", "|", " ", " ", "|", NL,
                           "|", " ", ":", "-", "-", "-", " ", "|", " ", "-", "-", "-",
                           " ", "|", NL>>)
    /\ ~inTableHeader /\ Len(tableAlignment) = 2 /\ tableCellCounter = 2

\* a heading of level 2 holding a code span has been walked to its end
C30_WitnessMarkup ==
    /\ rpc = "done"
    /\ written = <<"#", "#", " ", BQ, "c", BQ, NL, NL>>

\* a link with a title has been left inside a paragraph
C30_WitnessLink ==
    /\ rpc = "walk" /\ Innermost.Type = bfParagraph
    /\ written = <<"[", "]", "(", "u", "T", QUOTE, ")">>

====
